---- MODULE Spec2Model ----
(***************************************************************************)
(* Model of maestro's credential reconciliation (cmd/refresh-tokens.go),   *)
(* credential store reader and sandbox registry query / detail fetcher     *)
(* (pkg/container/info.go), domain whitelist propagator                    *)
(* (cmd/add-domain.go), indexed selection (cmd/connect.go), single-target  *)
(* sync (container.RefreshTokens), `maestro stop` (cmd/stop.go), batch     *)
(* creation (createContainersInParallel) and the modal dialogs of the      *)
(* terminal interface (Modal.Update).                                      *)
(*                                                                         *)
(* Strings that the code inspects character by character (container names  *)
(* and prefixes) are sequences of one-character strings.  Expiry times are *)
(* epoch milliseconds divided by 60000 (minutes), so that the zero         *)
(* time.Time of Go (0001-01-01T00:00:00Z) fits the model checker's         *)
(* integers; the code only compares and subtracts them.  The clock of the  *)
(* credential store reader is finer than the unit of the expiry times, as  *)
(* time.Now() is finer than epoch milliseconds.                            *)
(***************************************************************************)
EXTENDS Integers, Sequences, FiniteSets, TLC

VARIABLES
    prefix,      \* config.Containers.Prefix
    psRows,      \* lines printed by `docker ps` (running containers)
    sandbox,     \* sandbox name -> content of its /home/node/.claude/.credentials.json
    fs,          \* local path -> content (host credential file, temporary files)
    pc,          \* position of runRefreshTokens
    containers,  \* runRefreshTokens: containers
    idx,         \* runRefreshTokens: index of the running range loop
    sources,     \* runRefreshTokens: sources
    deferred,    \* runRefreshTokens: paths with a pending `defer os.Remove`
    freshest,    \* runRefreshTokens: freshest
    now,         \* time.Now() as read by IsTokenExpired in step 4
    syncCount,   \* runRefreshTokens: syncCount
    reads,       \* log of the replica reads attempted by the scan, in order
    writes,      \* log of the propagation writes attempted, in order
    created,     \* temporary paths created by the pass
    outcome,     \* what runRefreshTokens returned
    clock,       \* time.Now(), in instants (SubMilli to a unit of expiresAt)
    tokenExpiry, \* ClaudeAiOauth.ExpiresAt of the credentials under inspection
    verdict,     \* the last result of IsTokenExpired and the clock it read
    apc,         \* position of GetAuthStatus
    authStatus,  \* what GetAuthStatus returned
    fetchAll,    \* the detail fetch is GetAllContainers (else GetRunningContainers)
    fpc,         \* position of the detail fetch
    basics,      \* detail fetch: basics
    rowpc,       \* position of each row's goroutine
    info,        \* each row goroutine's info
    probes,      \* state of each row's probe goroutines
    locals,      \* the value each probe goroutine computed, and whether a
                 \* command of the probe failed
    mu,          \* each row's mutex: the probe holding it, or "" when free
    slots,       \* detail fetch: containers
    launched,    \* log of the probes launched, as <<name, probe>>
    fetched,     \* what the detail fetch returned
    conf,        \* the lines of the sandbox's /tmp/dnsmasq-firewall.conf
    dpc,         \* position of runAddDomain / AddDomainToContainer
    dargs,       \* the invocation at work: its domain, its entry point, and
                 \* whether it has changed conf or restarted dnsmasq
    dcalls,      \* log of the invocations that returned
    cfgFile,     \* the local persisted configuration: paths.ConfigFile()
    viperDomains,\* viper.GetStringSlice("firewall.allowed_domains")
    ucalls,      \* log of the calls of updateConfigWithDomain
    target,      \* RefreshTokens: containerName
    passNo,      \* the number of the reconciliation pass at work
    stpc,        \* position of stopDormantContainers
    stopFetched, \* stopDormantContainers: containers
    dormantContainers, \* stopDormantContainers: dormantContainers
    stopInput,   \* the line typed at the prompt of stopDormantContainers
    stopLog,     \* log of the `docker stop` commands run, in order
    successCount,\* stopDormantContainers: successCount
    stopOutcome, \* what stopDormantContainers returned and reported
    chowns,      \* log of the container syncs of a pass: the copy, the
                 \* ownership fix and whether the target was counted
    resolver,    \* the sandbox's dnsmasq: whether it runs, and how many of
                 \* the last lines of conf were written after it started
    tasks,       \* createContainersInParallel: tasks, by Task.Number
    wpc,         \* position of each worker goroutine
    wres,        \* each worker's result
    bmu,         \* createContainersInParallel: mu, the worker holding it or 0
    createdContainers, \* createContainersInParallel: createdContainers
    results,     \* createContainersInParallel: the channel results
    closed,      \* results has been closed
    collected,   \* the results the collector loop received, in order
    createdCount,\* createContainersInParallel: successCount
    bpc,         \* position of the collector loop
    batchReport, \* the summary printed: containers created, of how many
    modal,       \* the Modal that Update is called on
    mst,         \* what the last Update returned: the modal ("open"), nil,
                 \* or a panic
    lastKey,     \* msg.String() of the last key event
    keyCount,    \* the key events handled
    nameArg,     \* the containerName a call of GetShortName is given
    short,       \* what GetShortName returned
    rendered,    \* what FormatExpiration returned and the clock it read
    shown,       \* the containers handed to selectContainer
    sorted,      \* selectContainer: sorted
    input,       \* the line typed at the prompt
    selection,   \* what selectContainer returned
    spc          \* position of selectContainer

vars == <<prefix, psRows, sandbox, fs, pc, containers, idx, sources, deferred,
          freshest, now, syncCount, reads, writes, created, outcome,
          clock, tokenExpiry, verdict, apc, authStatus,
          fetchAll, fpc, basics, rowpc, info, probes, locals, mu, slots, launched,
          fetched, conf, dpc, dargs, dcalls, cfgFile, viperDomains, ucalls,
          target, passNo, stpc, stopFetched, dormantContainers, stopInput, stopLog,
          successCount, stopOutcome, chowns, resolver,
          tasks, wpc, wres, bmu, createdContainers, results, closed, collected,
          createdCount, bpc, batchReport, modal, mst, lastKey, keyCount,
          nameArg, short, rendered,
          shown, sorted, input, selection, spc>>

\* the state of the domain whitelist propagator
domainVars == <<conf, dpc, dargs, dcalls, cfgFile, viperDomains, ucalls>>

\* the local persisted configuration and the log of its updates
mirrorVars == <<cfgFile, viperDomains, ucalls>>

\* the state of a GetShortName call
nameVars == <<nameArg, short>>

\* the state of selectContainer
displayVars == <<shown, sorted, input, selection, spc>>

\* the state of stopDormantContainers
stopVars == <<stpc, stopFetched, dormantContainers, stopInput, stopLog, successCount,
              stopOutcome>>

\* the state of createContainersInParallel
batchVars == <<tasks, wpc, wres, bmu, createdContainers, results, closed, collected,
               createdCount, bpc, batchReport>>

\* the state of a modal of the terminal interface
modalVars == <<modal, mst, lastKey, keyCount>>

\* the observations added to the reconciliation pass, the resolver, the
\* batch creation and the modal
moreVars == <<chowns, resolver, batchVars, modalVars>>

\* the argument of RefreshTokens, the pass counter, stopDormantContainers,
\* and the added observations
lateVars == <<target, passNo, stopVars, moreVars>>

\* the state outside the reconciliation pass, the credential store reader
\* and the detail fetch
restVars == <<domainVars, nameVars, displayVars, rendered, lateVars>>

\* the state of the detail fetch
fetchVars == <<fetchAll, fpc, basics, rowpc, info, probes, locals, mu, slots, launched,
               fetched>>

\* the state of the credential store reader
credVars == <<clock, tokenExpiry, verdict, apc, authStatus>>

\* the state of runRefreshTokens
passVars == <<prefix, psRows, pc, containers, idx, sources, deferred, freshest, now,
              syncCount, reads, writes, outcome>>

\* the state of the reconciliation pass, the credential store reader and the
\* detail fetch, with the files they work on
coreVars == <<passVars, credVars, fetchVars, sandbox, fs, created, lateVars>>

----------------------------------------------------------------------------
(* Bounds of the model *)

\* the longest `docker ps` listing
MaxRows == 2

\* the latest time (clock reading or expiry) considered
MaxTime == 2

----------------------------------------------------------------------------
(* Strings *)

\* strings.HasPrefix
HasPrefix(s, p) == Len(p) <= Len(s) /\ SubSeq(s, 1, Len(p)) = p

\* the literal "mcl-" of the legacy prefix checks
LegacyPrefix == <<"m", "c", "l", "-">>

\* the location id of the host replica, "host"
HostLocation == <<"h", "o", "s", "t">>

MclFoo == <<"m", "c", "l", "-", "f", "o", "o">>
MclBaz == <<"m", "c", "l", "-", "b", "a", "z">>
MclDevX == <<"m", "c", "l", "-", "d", "-", "x">>
OtherBar == <<"o", "t", "h", "e", "r", "-", "b", "a", "r">>
MaestroA == <<"m", "a", "e", "s", "t", "r", "o", "-", "a">>

\* the names of the sandboxes of a reconciliation pass
SandboxNames == {MclFoo, MclDevX, MaestroA}

\* the values of config.Containers.Prefix considered: the legacy one, a
\* disjoint one, and one that the legacy prefix is a prefix of
Prefixes == {LegacyPrefix, <<"m", "a", "e", "s", "t", "r", "o", "-">>,
             <<"m", "c", "l", "-", "d", "-">>}

----------------------------------------------------------------------------
(* Credential artifacts *)

\* time.Time{} (0001-01-01T00:00:00Z), the expiresAt of a zero tokenSource
ZeroTime == -1035593280

\* time.UnixMilli: the instant of an epoch time; order preserving
UnixMilli(ms) == ms

\* time.Time.After
After(t, u) == t > u

\* what a credential file may hold
Missing == [st |-> "missing", expiresAt |-> 0]
Malformed == [st |-> "malformed", expiresAt |-> 0]
Cred(e) == [st |-> "ok", expiresAt |-> e]

\* the expiry values a credential file may carry
Expiries == {ZeroTime} \cup (1 .. MaxTime)

Credentials == {Cred(e) : e \in Expiries}

\* ReadCredentials: an error on a missing file or malformed content
ReadCredentials(content) ==
    IF content.st = "ok"
    THEN [err |-> FALSE, creds |-> [nil |-> FALSE, expiresAt |-> content.expiresAt]]
    ELSE [err |-> TRUE, creds |-> [nil |-> TRUE, expiresAt |-> 0]]

\* IsTokenExpired as a mutant: the boundary instant counts as expired
IsTokenExpiredInclusive(expiresAt, currentTimeMs) == expiresAt <= currentTimeMs

\* IsTokenExpired as a mutant: the comparison is reversed
IsTokenExpiredReversed(expiresAt, currentTimeMs) == expiresAt > currentTimeMs

\* IsTokenExpired
IsTokenExpired(expiresAt, currentTimeMs) == expiresAt < currentTimeMs

----------------------------------------------------------------------------
(* Sandbox registry query *)

\* a creation timestamp in the layout "2006-01-02 15:04:05 -0700 MST"
GoodStamp == "2025-10-18 06:33:27 -0700 PDT"

\* a creation timestamp that time.Parse rejects
BadStamp == "2 weeks ago"

\* a line of `docker ps` split at the tabs
Line(name, state, stamp) == <<name, "Up 2 hours", state, stamp>>

\* strings.Split("", "\t"): one empty part
EmptyLine == << <<>> >>

\* the guards of the parse loop as a mutant: the prefix check is missing
KeepLineAnyName(line, p) ==
    /\ line # EmptyLine
    /\ Len(line) >= 4
\* the guards of the parse loop as a mutant: a line whose creation
\* timestamp does not parse is skipped
KeepLineParsed(line, p) ==
    /\ line # EmptyLine
    /\ Len(line) >= 4
    /\ HasPrefix(line[1], p)
    /\ line[4] = GoodStamp

\* the guards of the parse loop: a line is kept
KeepLine(line, p) ==
    /\ line # EmptyLine
    /\ Len(line) >= 4
    /\ HasPrefix(line[1], p)

\* the basics of GetRunningContainers / GetAllContainers
ParseLines(lines, p) == SelectSeq(lines, LAMBDA l : KeepLine(l, p))

\* the names of the records returned for a listing
ListedNames(lines, p) ==
    LET b == ParseLines(lines, p) IN [i \in 1 .. Len(b) |-> b[i][1]]

----------------------------------------------------------------------------
(* Freshness reconciler: runRefreshTokens *)

\* hostCredPath
HostCredPath == <<".credentials.json">>

\* tmpFile of a container: os.TempDir()/maestro-creds-<name>.json
TmpFile(name) == <<"maestro-creds-", name>>

Paths == {HostCredPath} \cup {TmpFile(n) : n \in SandboxNames}

\* the zero value of tokenSource
ZeroSource ==
    [location |-> <<>>, path |-> <<>>,
     creds |-> [nil |-> TRUE, expiresAt |-> 0], expiresAt |-> ZeroTime]

\* a tokenSource appended to sources
Source(location, path, creds) ==
    [location |-> location, path |-> path, creds |-> creds,
     expiresAt |-> UnixMilli(creds.expiresAt)]

\* the comparison of step 3: src replaces the current freshest
Newer(src, cur) == After(src.expiresAt, cur.expiresAt)

\* step 3: the loop over sources, from the given freshest
RECURSIVE FindFreshest(_, _)
FindFreshest(srcs, cur) ==
    IF srcs = <<>> THEN cur
    ELSE FindFreshest(Tail(srcs), IF Newer(Head(srcs), cur) THEN Head(srcs) ELSE cur)

Range(q) == {q[i] : i \in DOMAIN q}

\* the deferred os.Remove calls, run when runRefreshTokens returns or panics
RunDeferred(files, paths) ==
    [p \in DOMAIN files |-> IF p \in Range(paths) THEN Missing ELSE files[p]]

\* what `docker cp <container>:... tmpFile` may do: succeed, fail before the
\* local file exists, or fail after the local file was created
CopyOutcomes == {"ok", "failed", "failedPartial"}

\* the return of runRefreshTokens: the result and the deferred removals
Return(result) ==
    /\ outcome' = result
    /\ pc' = "done"
    /\ fs' = RunDeferred(fs, deferred)
    /\ deferred' = <<>>

\* step 1: the host credentials
ReadHost ==
    /\ pc = "host"
    /\ LET r == ReadCredentials(fs[HostCredPath]) IN
           sources' = IF r.err THEN sources
                      ELSE Append(sources, Source(HostLocation, HostCredPath, r.creds))
    /\ reads' = Append(reads, [location |-> HostLocation,
                                ok |-> ~ReadCredentials(fs[HostCredPath]).err])
    /\ pc' = "list"
    /\ UNCHANGED <<restVars, credVars, fetchVars, prefix, psRows, sandbox, fs, containers, idx, deferred, freshest,
                   now, syncCount, writes, created, outcome>>

\* the legacy listing appended to the configured one
WithLegacy(listed, legacy) ==
    IF prefix # LegacyPrefix THEN listed \o legacy ELSE listed

\* step 2: the running containers of the configured and of the legacy prefix
ListContainers ==
    /\ pc = "list"
    /\ \E ok \in BOOLEAN, legacyOk \in BOOLEAN :
          IF ~ok
          THEN /\ outcome' = "ListFailed"
               /\ pc' = "done"
               /\ UNCHANGED <<containers, idx>>
          ELSE /\ containers' =
                      WithLegacy(ListedNames(psRows, prefix),
                                 IF legacyOk THEN ListedNames(psRows, LegacyPrefix)
                                 ELSE <<>>)
               /\ idx' = 1
               /\ pc' = IF containers' = <<>> THEN "select" ELSE "scan"
               /\ UNCHANGED outcome
    /\ UNCHANGED <<restVars, credVars, fetchVars, prefix, psRows, sandbox, fs, sources, deferred, freshest, now,
                   syncCount, reads, writes, created>>

\* the scan loop as a mutant: a failed extraction leaves the loop
AfterScanBreak(i, copied) ==
    IF i = Len(containers) \/ ~copied THEN "select" ELSE "scan"

\* the scan loop: `continue` on a failed extraction, on to step 3 after the
\* last container
AfterScan(i, copied) == IF i = Len(containers) THEN "select" ELSE "scan"

\* step 2, one iteration of the loop: extract and read one container's file
ScanContainer ==
    /\ pc = "scan"
    /\ LET c == containers[idx]
           tmpFile == TmpFile(c)
       IN  \E res \in CopyOutcomes :
              /\ res = "ok" =>  sandbox[c].st # "missing"
              /\ IF res = "ok"
                 THEN /\ fs' = [fs EXCEPT ![tmpFile] = sandbox[c]]
                      /\ created' = created \cup {tmpFile}
                      /\ deferred' = Append(deferred, tmpFile)
                      /\ LET r == ReadCredentials(sandbox[c]) IN
                             /\ sources' = IF r.err THEN sources
                                           ELSE Append(sources, Source(c, tmpFile, r.creds))
                             /\ reads' = Append(reads, [location |-> c, ok |-> ~r.err])
                 ELSE /\ IF res = "failedPartial"
                         THEN /\ fs' = [fs EXCEPT ![tmpFile] = Malformed]
                              /\ created' = created \cup {tmpFile}
                         ELSE UNCHANGED <<fs, created>>
                      /\ reads' = Append(reads, [location |-> c, ok |-> FALSE])
                      /\ UNCHANGED <<deferred, sources>>
              /\ pc' = AfterScan(idx, res = "ok")
    /\ idx' = idx + 1
    /\ UNCHANGED <<restVars, credVars, fetchVars, prefix, psRows, sandbox, containers, freshest, now, syncCount,
                   writes, outcome>>

\* the check for no sources as a mutant: the check is missing
NoSourcesNever(srcs) == FALSE

\* the check for no sources
NoSources(srcs) == Len(srcs) = 0

\* the check for no sources, and step 3
Select ==
    /\ pc = "select"
    /\ IF NoSources(sources)
       THEN /\ Return("NoCredentialsFound")
            /\ UNCHANGED freshest
       ELSE /\ freshest' = FindFreshest(sources, ZeroSource)
            /\ pc' = "validate"
            /\ UNCHANGED <<fs, deferred, outcome>>
    /\ UNCHANGED <<restVars, credVars, fetchVars, prefix, psRows, sandbox, containers, idx, sources, now, syncCount,
                   reads, writes, created>>

\* step 4: IsTokenExpired(freshest.creds) at the clock reading t
Validate ==
    /\ pc = "validate"
    /\ \E t \in 1 .. MaxTime :
          /\ now' = t
          /\ IF freshest.creds.nil
             THEN Return("Panic")
             ELSE IF IsTokenExpired(freshest.creds.expiresAt, t)
                  THEN Return("AllCredentialsExpired")
                  ELSE /\ pc' = "synchost"
                       /\ UNCHANGED <<fs, deferred, outcome>>
    /\ UNCHANGED <<restVars, credVars, fetchVars, prefix, psRows, sandbox, containers, idx, sources, freshest,
                   syncCount, reads, writes, created>>

\* the tally as a mutant: failed writes are counted too
CountedAlways(count, ok) == count + 1

\* syncCount after a write: syncCount++ on success only
Counted(count, ok) == IF ok THEN count + 1 ELSE count

\* the guard of the host sync
HostIsTarget == freshest.location # HostLocation

\* step 6, the host: copyCredentials(freshest.path, hostCredPath)
SyncHost ==
    /\ pc = "synchost"
    /\ IF HostIsTarget
       THEN \E writeOk \in BOOLEAN :
               LET ok == writeOk /\ fs[freshest.path].st # "missing" IN
               /\ writes' = Append(writes, [target |-> HostLocation, ok |-> ok])
               /\ fs' = IF ok THEN [fs EXCEPT ![HostCredPath] = fs[freshest.path]] ELSE fs
               /\ syncCount' = Counted(syncCount, ok)
       ELSE UNCHANGED <<writes, fs, syncCount>>
    /\ idx' = 1
    /\ pc' = IF containers = <<>> THEN "finish" ELSE "sync"
    /\ UNCHANGED <<restVars, credVars, fetchVars, prefix, psRows, sandbox, containers, sources, deferred, freshest,
                   now, reads, created, outcome>>

\* the skip of the container loop as a mutant: no container is skipped
IsSourceNever(name) == FALSE

\* the skip of the container loop: the container is the source
IsSource(name) == name = freshest.location

\* the tally as a mutant: a target is counted when its ownership was fixed
TalliedWhenOwned(copied, chownOk) == copied /\ chownOk

\* syncCount++ of the container loop: reached after a copy that succeeded,
\* whatever chown returned (`continue` skips it after a failed copy)
Tallied(copied, chownOk) == copied

\* the file handed to docker cp: the host file when the host is the source
SyncFile == IF freshest.location = HostLocation THEN HostCredPath ELSE freshest.path

\* docker cp succeeded: the command ran through and its source file exists
Copied(cpOk) == cpOk /\ fs[SyncFile].st # "missing"

\* the body of the container loop for a container that is not the source
SyncTo(c, cpOk, chownOk) ==
    /\ writes' = Append(writes, [target |-> c, ok |-> Copied(cpOk)])
    /\ sandbox' = IF Copied(cpOk) THEN [sandbox EXCEPT ![c] = fs[SyncFile]]
                  ELSE sandbox
    /\ syncCount' = Counted(syncCount, Tallied(Copied(cpOk), chownOk))

\* step 6, one iteration of the loop: docker cp into the container, then chown
SyncContainer ==
    /\ pc = "sync"
    /\ LET c == containers[idx]
       IN  IF IsSource(c)
           THEN UNCHANGED <<writes, sandbox, syncCount>>
           ELSE \E cpOk \in BOOLEAN, chownOk \in BOOLEAN : SyncTo(c, cpOk, chownOk)
    /\ idx' = idx + 1
    /\ pc' = IF idx = Len(containers) THEN "finish" ELSE "sync"
    /\ UNCHANGED <<restVars, credVars, fetchVars, prefix, psRows, fs, containers, sources, deferred, freshest, now,
                   reads, created, outcome>>

\* the final report and `return nil`
Finish ==
    /\ pc = "finish"
    /\ Return("Success")
    /\ UNCHANGED <<restVars, credVars, fetchVars, prefix, psRows, sandbox, containers, idx, sources, freshest, now,
                   syncCount, reads, writes, created>>

\* stopDormantContainers at rest
StopIdle ==
    /\ stpc = "idle"
    /\ stopFetched = <<>>
    /\ dormantContainers = <<>>
    /\ stopInput = <<>>
    /\ stopLog = <<>>
    /\ successCount = 0
    /\ stopOutcome = [result |-> "none", reported |-> 0]

\* no batch creation at work
BatchIdle ==
    /\ tasks = <<>>
    /\ wpc = <<>>
    /\ wres = <<>>
    /\ bmu = 0
    /\ createdContainers = <<>>
    /\ results = <<>>
    /\ closed = FALSE
    /\ collected = <<>>
    /\ createdCount = 0
    /\ bpc = "idle"
    /\ batchReport = [created |-> 0, of |-> 0]

\* no modal is open
ModalIdle ==
    /\ modal = <<>>
    /\ mst = "none"
    /\ lastKey = ""
    /\ keyCount = 0

\* nothing on record yet, the resolver as the sandbox's setup started it, no
\* batch and no modal
MoreIdle ==
    /\ chowns = <<>>
    /\ resolver = [running |-> TRUE, unloaded |-> 0]
    /\ BatchIdle
    /\ ModalIdle

\* no call of RefreshTokens, the first pass, and no `maestro stop`
LateIdle ==
    /\ target = <<>>
    /\ passNo = 1
    /\ StopIdle
    /\ MoreIdle

\* the domain whitelist propagator at rest
DomainIdle ==
    /\ conf = <<>>
    /\ dpc = "idle"
    /\ dargs = [domain |-> <<>>, cmd |-> FALSE, mutated |-> FALSE, restarted |-> FALSE,
                resolved |-> "none"]
    /\ dcalls = <<>>
    /\ cfgFile = [kind |-> "absent", domains |-> <<>>]
    /\ viperDomains = <<>>
    /\ ucalls = <<>>

\* no call of GetShortName
NamesIdle ==
    /\ nameArg = <<>>
    /\ short = [called |-> FALSE, out |-> <<>>]

\* no call of FormatExpiration
RenderIdle == rendered = [format |-> "", duration |-> 0, at |-> 0]

\* selectContainer at rest
DisplayIdle ==
    /\ shown = <<>>
    /\ sorted = <<>>
    /\ input = <<>>
    /\ selection = [kind |-> "none", rec |-> [Name |-> <<>>, Status |-> "",
                                               NeedsAttention |-> FALSE]]
    /\ spc = "idle"

\* the detail fetch at rest
FetchIdle ==
    /\ fetchAll = FALSE
    /\ fpc = "idle"
    /\ basics = <<>>
    /\ rowpc = <<>>
    /\ info = <<>>
    /\ probes = <<>>
    /\ locals = <<>>
    /\ mu = <<>>
    /\ slots = <<>>
    /\ launched = {}
    /\ fetched = [returned |-> FALSE, err |-> FALSE, containers |-> <<>>]

\* the credential store reader at rest
CredIdle ==
    /\ clock = 0
    /\ tokenExpiry = 0
    /\ verdict = [called |-> FALSE, at |-> 0, instant |-> 0, expired |-> FALSE]
    /\ apc = "idle"
    /\ authStatus = [kind |-> "", remaining |-> 0, at |-> 0]

\* sequences of the given names, no longer than n
RECURSIVE Listings(_, _)
Listings(names, n) ==
    IF n = 0 THEN {<<>>}
    ELSE LET shorter == Listings(names, n - 1) IN
         shorter \cup {Append(q, x) : q \in shorter, x \in names}

Distinct(q) == \A i, j \in DOMAIN q : q[i] = q[j] => i = j

InitRefresh ==
    /\ prefix \in Prefixes
    /\ \E names \in {q \in Listings(SandboxNames, MaxRows) : Distinct(q)} :
          /\ psRows = [i \in DOMAIN names |-> Line(names[i], "running", GoodStamp)]
          /\ sandbox \in {f \in [SandboxNames -> {Malformed} \cup Credentials] :
                            \A n \in SandboxNames :
                               (n \notin Range(names)
                                \/ ~(HasPrefix(n, prefix) \/ HasPrefix(n, LegacyPrefix)))
                               => f[n] = Malformed}
    /\ \E h \in {Missing} \cup Credentials :
          fs = [p \in Paths |-> IF p = HostCredPath THEN h ELSE Missing]
    /\ pc = "host"
    /\ containers = <<>>
    /\ idx = 1
    /\ sources = <<>>
    /\ deferred = <<>>
    /\ freshest = ZeroSource
    /\ now = 1
    /\ syncCount = 0
    /\ reads = <<>>
    /\ writes = <<>>
    /\ created = {}
    /\ outcome = "running"
    /\ CredIdle
    /\ FetchIdle
    /\ LateIdle /\ DomainIdle /\ NamesIdle /\ RenderIdle /\ DisplayIdle

NextRefresh ==
    \/ ReadHost
    \/ ListContainers
    \/ ScanContainer
    \/ Select
    \/ Validate
    \/ SyncHost
    \/ SyncContainer
    \/ Finish

SpecRefresh == InitRefresh /\ [][NextRefresh]_vars

----------------------------------------------------------------------------
(* Credential store reader: IsTokenExpired, TimeUntilExpiration, GetAuthStatus *)

\* 24*time.Hour
Day == 1440

\* time.Hour
Hour == 60

\* runRefreshTokens at rest
PassIdle ==
    /\ pc = "idle"
    /\ containers = <<>>
    /\ idx = 1
    /\ sources = <<>>
    /\ deferred = <<>>
    /\ freshest = ZeroSource
    /\ now = 1
    /\ syncCount = 0
    /\ reads = <<>>
    /\ writes = <<>>
    /\ outcome = "running"

\* the expiry values of the credentials under inspection: around the clock
\* readings, a day later, an hour before and half an hour after the first
\* clock reading
TokenExpiries ==
    (0 .. MaxTime + 1) \cup {Day + e : e \in 0 .. MaxTime + 1}
        \cup {-Hour, Hour \div 2}

\* the instants the clock tells apart within one unit of expiresAt: time.Now()
\* is finer than the epoch milliseconds of expiresAt
SubMilli == 2

\* time.Now().UnixMilli() at the instant t: what is below the unit is dropped
NowMilli(t) == t \div SubMilli

\* TimeUntilExpiration: time.Until(expiresAt) at the instant t, in instants
TimeUntilExpiration(expiresAt, t) == UnixMilli(expiresAt) * SubMilli - t

\* FormatExpiration as a mutant: the boundaries belong to the other side
FormatExpirationInclusive(expiresAt, t) ==
    LET duration == TimeUntilExpiration(expiresAt, t) IN
    IF duration <= 0
    THEN [format |-> "EXPIRED %.1fh ago", duration |-> -duration]
    ELSE IF duration <= Day * SubMilli
         THEN [format |-> "Valid for %.1fh", duration |-> duration]
         ELSE [format |-> "Valid for %.1fd", duration |-> duration]

\* FormatExpiration at the instant t: the format chosen, and the
\* duration whose hours (or days) it prints
FormatExpiration(expiresAt, t) ==
    LET duration == TimeUntilExpiration(expiresAt, t) IN
    IF duration < 0
    THEN [format |-> "EXPIRED %.1fh ago", duration |-> -duration]
    ELSE IF duration < Day * SubMilli
         THEN [format |-> "Valid for %.1fh", duration |-> duration]
         ELSE [format |-> "Valid for %.1fd", duration |-> duration]

\* a call of FormatExpiration(creds)
Format ==
    /\ LET f == FormatExpiration(tokenExpiry, clock) IN
           rendered' = [format |-> f.format, duration |-> f.duration, at |-> clock]
    /\ UNCHANGED <<coreVars, domainVars, nameVars, displayVars>>

\* time passes
Tick ==
    /\ NowMilli(clock + 1) <= MaxTime
    /\ clock' = clock + 1
    /\ UNCHANGED <<restVars, passVars, fetchVars, sandbox, fs, created, tokenExpiry, verdict, apc, authStatus>>

\* a call of IsTokenExpired(creds)
CheckExpired ==
    /\ verdict' = [called |-> TRUE, at |-> NowMilli(clock), instant |-> clock,
                   expired |-> IsTokenExpired(tokenExpiry, NowMilli(clock))]
    /\ UNCHANGED <<restVars, passVars, fetchVars, sandbox, fs, created, clock, tokenExpiry, apc, authStatus>>

\* the return of GetAuthStatus: the status, and the deferred os.Remove(tmpFile)
AuthReturn(kind, remaining, files) ==
    /\ authStatus' = [kind |-> kind, remaining |-> remaining, at |-> NowMilli(clock)]
    /\ fs' = [files EXCEPT ![TmpFile(MclFoo)] = Missing]
    /\ apc' = "returned"

\* GetAuthStatus: the extraction of the container's credentials
AuthCopy ==
    /\ apc = "idle"
    /\ \E res \in CopyOutcomes :
          /\ res = "ok" => sandbox[MclFoo].st # "missing"
          /\ created' = IF res = "failed" THEN created
                        ELSE created \cup {TmpFile(MclFoo)}
          /\ IF res = "ok"
             THEN /\ fs' = [fs EXCEPT ![TmpFile(MclFoo)] = sandbox[MclFoo]]
                  /\ apc' = "read"
                  /\ UNCHANGED authStatus
             ELSE AuthReturn("NO AUTH", 0,
                             IF res = "failedPartial"
                             THEN [fs EXCEPT ![TmpFile(MclFoo)] = Malformed] ELSE fs)
    /\ UNCHANGED <<restVars, passVars, fetchVars, sandbox, clock, tokenExpiry, verdict>>

\* GetAuthStatus: ReadCredentials(tmpFile)
AuthRead ==
    /\ apc = "read"
    /\ IF ReadCredentials(fs[TmpFile(MclFoo)]).err
       THEN AuthReturn("INVALID", 0, fs)
       ELSE /\ apc' = "expired"
            /\ UNCHANGED <<fs, authStatus>>
    /\ UNCHANGED <<restVars, passVars, fetchVars, sandbox, created, clock, tokenExpiry, verdict>>

\* GetAuthStatus: IsTokenExpired(creds)
AuthExpired ==
    /\ apc = "expired"
    /\ IF IsTokenExpired(fs[TmpFile(MclFoo)].expiresAt, NowMilli(clock))
       THEN AuthReturn("EXPIRED", 0, fs)
       ELSE /\ apc' = "duration"
            /\ authStatus' = [authStatus EXCEPT !.at = NowMilli(clock)]
            /\ UNCHANGED fs
    /\ UNCHANGED <<restVars, passVars, fetchVars, sandbox, created, clock, tokenExpiry, verdict>>

\* GetAuthStatus: TimeUntilExpiration(creds) and the two valid statuses
AuthDuration ==
    /\ apc = "duration"
    /\ LET duration == TimeUntilExpiration(fs[TmpFile(MclFoo)].expiresAt, clock) IN
           /\ authStatus' = [kind |-> IF duration < Day * SubMilli THEN "WARNING"
                                      ELSE "VALID",
                             remaining |-> duration, at |-> authStatus.at]
           /\ fs' = [fs EXCEPT ![TmpFile(MclFoo)] = Missing]
           /\ apc' = "returned"
    /\ UNCHANGED <<restVars, passVars, fetchVars, sandbox, created, clock, tokenExpiry, verdict>>

InitCred ==
    /\ PassIdle
    /\ prefix = LegacyPrefix
    /\ psRows = <<>>
    /\ clock \in 0 .. MaxTime * SubMilli
    /\ tokenExpiry \in TokenExpiries
    /\ \E c \in {Missing, Malformed, Cred(tokenExpiry)} :
          sandbox = [n \in SandboxNames |-> IF n = MclFoo THEN c ELSE Malformed]
    /\ fs = [p \in Paths |-> Missing]
    /\ created = {}
    /\ verdict = [called |-> FALSE, at |-> 0, instant |-> 0, expired |-> FALSE]
    /\ apc = "idle"
    /\ authStatus = [kind |-> "", remaining |-> 0, at |-> 0]
    /\ FetchIdle
    /\ LateIdle /\ DomainIdle /\ NamesIdle /\ RenderIdle /\ DisplayIdle

NextCred ==
    \/ Tick
    \/ CheckExpired
    \/ Format
    \/ AuthCopy
    \/ AuthRead
    \/ AuthExpired
    \/ AuthDuration

SpecCred == InitCred /\ [][NextCred]_vars

----------------------------------------------------------------------------
(* Detail fetcher: GetRunningContainers, GetAllContainers *)

\* the container names of a `docker ps` listing
FetchNames == {MclFoo, OtherBar, MclBaz}

\* the prefixes a detail fetch is called with
FetchPrefixes == {LegacyPrefix, <<"o", "t", "h", "e", "r", "-">>}

\* a line that is no row of the listing: a warning, without a tab
WarningLine == << <<"W", "A", "R", "N", "I", "N", "G">> >>

\* time.Parse("2006-01-02 15:04:05 -0700 MST", s); time.Time{} on an error
ParseCreatedAt(s) ==
    IF s = GoodStamp THEN [zero |-> FALSE, stamp |-> s]
    ELSE [zero |-> TRUE, stamp |-> ""]

\* basicInfo of a kept line
Basic(line) ==
    [name |-> line[1], status |-> line[2], state |-> line[3],
     createdAt |-> ParseCreatedAt(line[4])]

\* GetShortName as a mutant: every leading occurrence of the prefix is cut
RECURSIVE GetShortNameRepeated(_, _)
GetShortNameRepeated(containerName, p) ==
    IF p # <<>> /\ HasPrefix(containerName, p)
    THEN GetShortNameRepeated(SubSeq(containerName, Len(p) + 1, Len(containerName)), p)
    ELSE containerName

\* GetShortName
GetShortName(containerName, p) ==
    IF HasPrefix(containerName, p)
    THEN SubSeq(containerName, Len(p) + 1, Len(containerName))
    ELSE containerName

\* the zero value of Info, as make([]Info, n) fills the slots
ZeroInfo ==
    [Name |-> <<>>, ShortName |-> <<>>, Status |-> "", StatusDetails |-> "",
     CreatedAt |-> [zero |-> TRUE, stamp |-> ""], Branch |-> "",
     NeedsAttention |-> FALSE, IsDormant |-> FALSE, AuthStatus |-> "",
     LastActivity |-> "", GitStatus |-> <<>>]

\* the Info literal a row goroutine starts from
NewInfo(basic, p, all) ==
    [ZeroInfo EXCEPT !.Name = basic.name,
                     !.ShortName = GetShortName(basic.name, p),
                     !.Status = basic.state,
                     !.StatusDetails = basic.status,
                     !.CreatedAt = basic.createdAt,
                     !.LastActivity = IF all THEN "-" ELSE "",
                     !.GitStatus = IF all THEN <<"-">> ELSE <<>>]

\* the probes of a row, named by the Info field they fill
ProbeKinds(all) ==
    IF all THEN {"Branch", "NeedsAttention", "IsDormant", "AuthStatus",
                 "LastActivity", "GitStatus"}
    ELSE {"Branch", "NeedsAttention", "IsDormant"}

AllProbeKinds == ProbeKinds(TRUE)

\* one of the counting commands of GetGitStatus: failed, or its trimmed output
CmdFailed == [err |-> TRUE, out |-> ""]

Count(n) == [err |-> FALSE, out |-> n]

\* what the commands behind a probe may give: an error, or their output.
\* For AuthStatus err is a failed extraction or read, out the status
\* GetAuthStatus returns; for GitStatus err is the failed `test -d` and the
\* three parts are the counting commands
ExecResults(kind) ==
    CASE kind = "Branch" ->
            {[err |-> TRUE, out |-> ""], [err |-> FALSE, out |-> "main"]}
      [] kind = "NeedsAttention" ->
            {[err |-> TRUE, out |-> <<>>],
             [err |-> FALSE, out |-> << <<"0", "0">> >>],
             [err |-> FALSE, out |-> << <<"0", "0">>, <<"0", "1">> >>]}
      [] kind = "IsDormant" ->
            {[err |-> TRUE, out |-> ""], [err |-> FALSE, out |-> "node claude"]}
      [] kind = "AuthStatus" ->
            {[err |-> TRUE, out |-> "NO AUTH"], [err |-> TRUE, out |-> "INVALID"],
             [err |-> FALSE, out |-> "VALID"]}
      [] kind = "LastActivity" ->
            {[err |-> TRUE, out |-> ""], [err |-> FALSE, out |-> ""],
             [err |-> FALSE, out |-> "5m"]}
      [] kind = "GitStatus" ->
            {[err |-> TRUE, status |-> CmdFailed, ahead |-> CmdFailed,
              behind |-> CmdFailed],
             [err |-> FALSE, status |-> CmdFailed, ahead |-> CmdFailed,
              behind |-> CmdFailed],
             [err |-> FALSE, status |-> Count("0"), ahead |-> Count("0"),
              behind |-> Count("0")],
             [err |-> FALSE, status |-> Count("3"), ahead |-> Count("0"),
              behind |-> Count("0")]}

\* GetBranchName
GetBranchName(r) == IF r.err THEN "unknown" ELSE r.out

\* CheckBellStatus: a window with the bell flag or the silence flag set
CheckBellStatus(r) ==
    IF r.err THEN FALSE
    ELSE \E w \in DOMAIN r.out : r.out[w][1] = "1" \/ r.out[w][2] = "1"
\* IsClaudeRunning as a mutant: a failed command counts as a process found
IsClaudeRunningOnError(r) == IF r.err THEN TRUE ELSE r.out # ""

\* IsClaudeRunning: the filtered process list is not empty
IsClaudeRunning(r) == IF r.err THEN FALSE ELSE r.out # ""

\* what GetAuthStatus returns, by its status symbol
AuthStatusOf(r) == IF r.err THEN "NO AUTH" ELSE r.out

\* GetLastActivity: "-" when the command fails or its output is no integer
GetLastActivity(r) == IF r.err \/ r.out = "" THEN "-" ELSE r.out

\* the column width of padGitStatus
GitWidth == 10

\* padGitStatus: the status padded with spaces to the column width
padGitStatus(status) ==
    IF Len(status) >= GitWidth THEN status
    ELSE status \o [i \in 1 .. GitWidth - Len(status) |-> " "]

\* the UTF-8 bytes of the indicator characters (len counts bytes)
CheckMark == <<"E2", "9C", "93">>
Delta == <<"CE", "94">>
UpArrow == <<"E2", "86", "91">>
DownArrow == <<"E2", "86", "93">>

\* strings.Join
RECURSIVE Join(_, _)
Join(parts, sep) ==
    IF parts = <<>> THEN <<>>
    ELSE IF Len(parts) = 1 THEN parts[1]
         ELSE parts[1] \o sep \o Join(Tail(parts), sep)

\* the indicators of GetGitStatus: one for each counting command that ran and
\* gave a count other than "0" (and, for ahead and behind, other than "")
Indicators(r) ==
    (IF ~r.status.err /\ r.status.out # "0"
     THEN <<Delta \o <<r.status.out>> >> ELSE <<>>)
    \o (IF ~r.ahead.err /\ r.ahead.out \notin {"0", ""}
        THEN <<UpArrow \o <<r.ahead.out>> >> ELSE <<>>)
    \o (IF ~r.behind.err /\ r.behind.out \notin {"0", ""}
        THEN <<DownArrow \o <<r.behind.out>> >> ELSE <<>>)

\* GetGitStatus: "-" without a repository, the check mark without indicators
GetGitStatus(r) ==
    IF r.err THEN padGitStatus(<<"-">>)
    ELSE IF Len(Indicators(r)) = 0 THEN padGitStatus(CheckMark)
         ELSE padGitStatus(Join(Indicators(r), <<" ">>))

\* a command of the probe failed, or its output could not be used
ProbeFailed(kind, r) ==
    CASE kind = "GitStatus" -> r.err \/ r.status.err \/ r.ahead.err \/ r.behind.err
      [] kind = "LastActivity" -> r.err \/ r.out = ""
      [] OTHER -> r.err

\* the value a probe goroutine computes
ProbeValue(kind, r) ==
    CASE kind = "Branch" -> GetBranchName(r)
      [] kind = "NeedsAttention" -> CheckBellStatus(r)
      [] kind = "IsDormant" -> ~IsClaudeRunning(r)
      [] kind = "AuthStatus" -> AuthStatusOf(r)
      [] kind = "LastActivity" -> GetLastActivity(r)
      [] kind = "GitStatus" -> GetGitStatus(r)

Rows == DOMAIN basics

\* the probe goroutines' locals before they ran
NoLocals == [k \in AllProbeKinds |-> [err |-> FALSE, val |-> ZeroInfo[k]]]

\* the error return as a mutant: the rows parsed from the partial output
ListErrorPartial(lines, p) ==
    [returned |-> TRUE, err |-> TRUE,
     containers |-> [i \in DOMAIN ParseLines(lines, p) |-> ZeroInfo]]

\* `return nil, err` after the bulk list call
ListError(lines, p) == [returned |-> TRUE, err |-> TRUE, containers |-> <<>>]

\* `return containers, nil` as a mutant: a failed branch probe is escalated
ResultEscalating(records) ==
    [returned |-> TRUE,
     err |-> \E i \in DOMAIN records : records[i].Branch = "unknown",
     containers |-> IF \E i \in DOMAIN records : records[i].Branch = "unknown"
                    THEN <<>> ELSE records]

\* `return containers, nil`
Result(records) == [returned |-> TRUE, err |-> FALSE, containers |-> records]

\* mu.Lock() as a mutant: the lock is not taken
LockFreeAlways(i) == TRUE

\* mu.Lock() of a row can proceed: the mutex is free
LockFree(i) == mu[i] = ""

\* detailWg.Wait() as a mutant: the row does not wait for its probes
DetailWaitSkipped(i) == TRUE

\* detailWg.Wait() of a row can return: every probe launched is done
DetailWait(i) == \A k \in AllProbeKinds : probes[i][k] \in {"none", "done"}

\* the bulk list call, the parse loop, and the launch of the row goroutines
ListRows ==
    /\ fpc = "call"
    /\ \E ok \in BOOLEAN :
          IF ~ok
          THEN /\ fetched' = ListError(psRows, prefix)
               /\ fpc' = "returned"
               /\ UNCHANGED <<basics, rowpc, info, probes, locals, mu, slots>>
          ELSE LET kept == ParseLines(psRows, prefix)
                   b == [i \in DOMAIN kept |-> Basic(kept[i])]
               IN  /\ basics' = b
                   /\ slots' = [i \in DOMAIN b |-> ZeroInfo]
                   /\ rowpc' = [i \in DOMAIN b |-> "start"]
                   /\ info' = [i \in DOMAIN b |-> ZeroInfo]
                   /\ probes' = [i \in DOMAIN b |-> [k \in AllProbeKinds |-> "none"]]
                   /\ locals' = [i \in DOMAIN b |-> NoLocals]
                   /\ mu' = [i \in DOMAIN b |-> ""]
                   /\ fpc' = "wait"
                   /\ UNCHANGED fetched
    /\ UNCHANGED <<restVars, passVars, credVars, sandbox, fs, created, fetchAll, launched>>

\* a row goroutine starts: its Info literal, and the launch of its probes
RowStart(i) ==
    /\ fpc = "wait"
    /\ rowpc[i] = "start"
    /\ info' = [info EXCEPT ![i] = NewInfo(basics[i], prefix, fetchAll)]
    /\ IF ~fetchAll \/ basics[i].state = "running"
       THEN /\ probes' = [probes EXCEPT ![i] =
                             [k \in AllProbeKinds |->
                                 IF k \in ProbeKinds(fetchAll) THEN "running" ELSE "none"]]
            /\ launched' = launched \cup
                             {<<basics[i].name, k>> : k \in ProbeKinds(fetchAll)}
            /\ rowpc' = [rowpc EXCEPT ![i] = "waiting"]
       ELSE /\ rowpc' = [rowpc EXCEPT ![i] = "branch"]
            /\ UNCHANGED <<probes, launched>>
    /\ UNCHANGED <<restVars, passVars, credVars, sandbox, fs, created, fetchAll, fpc, basics,
                   locals, mu, slots, fetched>>

\* a probe goroutine: its command ends, and it takes the row's mutex
ProbeLock(i, k) ==
    /\ probes[i][k] = "running"
    /\ LockFree(i)
    /\ \E r \in ExecResults(k) :
          locals' = [locals EXCEPT ![i][k] =
                        [err |-> ProbeFailed(k, r), val |-> ProbeValue(k, r)]]
    /\ mu' = [mu EXCEPT ![i] = k]
    /\ probes' = [probes EXCEPT ![i][k] = "holding"]
    /\ UNCHANGED <<restVars, passVars, credVars, sandbox, fs, created, fetchAll, fpc, basics,
                   rowpc, info, slots, launched, fetched>>

\* a probe goroutine: it writes its field, unlocks and is done
ProbeWrite(i, k) ==
    /\ probes[i][k] = "holding"
    /\ info' = [info EXCEPT ![i][k] = locals[i][k].val]
    /\ mu' = [mu EXCEPT ![i] = ""]
    /\ probes' = [probes EXCEPT ![i][k] = "done"]
    /\ UNCHANGED <<restVars, passVars, credVars, sandbox, fs, created, fetchAll, fpc, basics,
                   rowpc, locals, slots, launched, fetched>>

\* containers[idx] = info as a mutant: the records are stored in the order
\* in which the rows finish
SlotByArrival(i) == Cardinality({j \in Rows : rowpc[j] = "done"}) + 1

\* containers[idx] = info: the slot of a row goroutine is the index of its row
Slot(i) == i

\* a row goroutine: detailWg.Wait() returns, the record goes into its slot
RowJoin(i) ==
    /\ rowpc[i] = "waiting"
    /\ DetailWait(i)
    /\ slots' = [slots EXCEPT ![Slot(i)] = info[i]]
    /\ rowpc' = [rowpc EXCEPT ![i] = "done"]
    /\ UNCHANGED <<restVars, passVars, credVars, sandbox, fs, created, fetchAll, fpc, basics,
                   info, probes, locals, mu, launched, fetched>>

\* a row goroutine of a stopped container: the branch only, then its slot
RowBranch(i) ==
    /\ rowpc[i] = "branch"
    /\ \E r \in ExecResults("Branch") :
          LET filled == [info[i] EXCEPT !.Branch = GetBranchName(r)] IN
          /\ info' = [info EXCEPT ![i] = filled]
          /\ slots' = [slots EXCEPT ![Slot(i)] = filled]
          /\ locals' = [locals EXCEPT ![i].Branch =
                           [err |-> ProbeFailed("Branch", r), val |-> GetBranchName(r)]]
    /\ launched' = launched \cup {<<basics[i].name, "Branch">>}
    /\ rowpc' = [rowpc EXCEPT ![i] = "done"]
    /\ UNCHANGED <<restVars, passVars, credVars, sandbox, fs, created, fetchAll, fpc, basics,
                   probes, mu, fetched>>

\* wg.Wait() returns, and the fetch returns containers
FetchReturn ==
    /\ fpc = "wait"
    /\ \A i \in Rows : rowpc[i] = "done"
    /\ fetched' = Result(slots)
    /\ fpc' = "returned"
    /\ UNCHANGED <<restVars, passVars, credVars, sandbox, fs, created, fetchAll, basics, rowpc,
                   info, probes, locals, mu, slots, launched>>

\* the detail fetch is called on a listing of distinct names; under
\* `docker ps -a` mcl-foo may be running and the other containers are
\* stopped, under `docker ps` all are running.  The creation timestamp of
\* other-bar is unparseable, a warning line precedes the rows, and the empty
\* part after the last newline ends the lines
InitFetch ==
    /\ PassIdle
    /\ CredIdle
    /\ sandbox = [n \in SandboxNames |-> Malformed]
    /\ fs = [p \in Paths |-> Missing]
    /\ created = {}
    /\ fetchAll \in BOOLEAN
    /\ prefix \in FetchPrefixes
    /\ \E names \in {q \in Listings(FetchNames, Cardinality(FetchNames)) : Distinct(q)},
          fooRuns \in BOOLEAN :
          /\ ~fetchAll => fooRuns
          /\ psRows =
                <<WarningLine>>
                \o [i \in DOMAIN names |->
                       Line(names[i],
                            IF ~fetchAll \/ (fooRuns /\ names[i] = MclFoo)
                            THEN "running" ELSE "exited",
                            IF names[i] = OtherBar THEN BadStamp ELSE GoodStamp)]
                \o <<EmptyLine>>
    /\ fpc = "call"
    /\ basics = <<>>
    /\ rowpc = <<>>
    /\ info = <<>>
    /\ probes = <<>>
    /\ locals = <<>>
    /\ mu = <<>>
    /\ slots = <<>>
    /\ launched = {}
    /\ fetched = [returned |-> FALSE, err |-> FALSE, containers |-> <<>>]
    /\ LateIdle /\ DomainIdle /\ NamesIdle /\ RenderIdle /\ DisplayIdle

NextFetch ==
    \/ ListRows
    \/ \E i \in Rows : RowStart(i)
    \/ \E i \in Rows, k \in AllProbeKinds : ProbeLock(i, k)
    \/ \E i \in Rows, k \in AllProbeKinds : ProbeWrite(i, k)
    \/ \E i \in Rows : RowJoin(i)
    \/ \E i \in Rows : RowBranch(i)
    \/ FetchReturn

SpecFetch == InitFetch /\ [][NextFetch]_vars

----------------------------------------------------------------------------
(* Domain whitelist propagator: runAddDomain, AddDomainToContainer *)

\* the most invocations of the propagator in one behaviour
MaxCalls == 2

\* the domains the propagator is called with
DomainAB == <<"a", ".", "b">>
DomainAxB == <<"a", "x", "b">>
Domains == {DomainAB, DomainAxB}

\* the line `ipset=/<domain>/allowed-domains`
IpsetRule(domain) == <<"ipset=/">> \o domain \o <<"/", "allowed-domains">>

\* the line `server=/<domain>/8.8.8.8`
ServerRule(domain) == <<"server=/">> \o domain \o <<"/", "8.8.8.8">>

\* the pattern given to grep: fmt.Sprintf("ipset=/%s/", domain)
GrepPattern(domain) == <<"ipset=/">> \o domain \o <<"/">>

\* the pattern, a basic regular expression, matches the line at an offset:
\* a dot stands for any character
MatchesAt(pattern, line, offset) ==
    /\ offset + Len(pattern) <= Len(line)
    /\ \A i \in 1 .. Len(pattern) :
           pattern[i] = "." \/ pattern[i] = line[offset + i]

\* `grep -q pattern file` exits 0: some line has a match
Grep(pattern, lines) ==
    \E n \in DOMAIN lines : \E offset \in 0 .. Len(lines[n]) :
        MatchesAt(pattern, lines[n], offset)

\* the state outside the propagator and the resolver it restarts
domainCore == <<passVars, credVars, fetchVars, sandbox, fs, created, target, passNo,
                stopVars, chowns, batchVars, modalVars>>

\* the return of an invocation
DomainReturn(result, args) ==
    /\ dcalls' = Append(dcalls, [domain |-> args.domain, cmd |-> args.cmd,
                                  result |-> result, mutated |-> args.mutated,
                                  restarted |-> args.restarted,
                                  resolved |-> args.resolved])
    /\ dpc' = "idle"

\* an invocation starts: runAddDomain (cmd) or AddDomainToContainer
DomainCall ==
    /\ dpc = "idle"
    /\ Len(dcalls) < MaxCalls
    /\ \E d \in Domains, cmd \in BOOLEAN :
          /\ dargs' = [domain |-> d, cmd |-> cmd, mutated |-> FALSE,
                        restarted |-> FALSE, resolved |-> "none"]
          /\ dpc' = IF cmd THEN "state" ELSE "check"
    /\ UNCHANGED <<coreVars, nameVars, displayVars, rendered, conf, dcalls, mirrorVars>>

\* runAddDomain: the container must be running
CheckRunning ==
    /\ dpc = "state"
    /\ \E state \in {"error", "", "running"} :
          IF state = "running"
          THEN dpc' = "check" /\ UNCHANGED dcalls
          ELSE DomainReturn(IF state = "error" THEN "CheckFailed" ELSE "NotRunning",
                            dargs)
    /\ UNCHANGED <<coreVars, nameVars, displayVars, rendered, conf, dargs, mirrorVars>>

\* the existing-rule check: checkConfCmd.Run() == nil, when grep runs and
\* exits 0
RuleFound(runs) == runs /\ Grep(GrepPattern(dargs.domain), conf)

\* the existing-rule check: found, AddDomainToContainer returns and
\* runAddDomain goes on to the restart
CheckConf ==
    /\ dpc = "check"
    /\ \E runs \in BOOLEAN :
          IF RuleFound(runs)
          THEN IF dargs.cmd
               THEN dpc' = "restart" /\ UNCHANGED dcalls
               ELSE DomainReturn("Success", dargs)
          ELSE dpc' = "append" /\ UNCHANGED dcalls
    /\ UNCHANGED <<coreVars, nameVars, displayVars, rendered, conf, dargs, mirrorVars>>

\* echo 'ipset=...' >> conf && echo 'server=...' >> conf: both lines, none,
\* or the first one only
AppendRule ==
    /\ dpc = "append"
    /\ \E res \in CopyOutcomes :
          LET written == IF res = "ok"
                         THEN <<IpsetRule(dargs.domain), ServerRule(dargs.domain)>>
                         ELSE IF res = "failedPartial"
                              THEN <<IpsetRule(dargs.domain)>> ELSE <<>>
              args == [dargs EXCEPT !.mutated = written # <<>>]
          IN  /\ conf' = conf \o written
              /\ resolver' = [resolver EXCEPT !.unloaded = @ + Len(written)]
              /\ dargs' = args
              /\ IF res = "ok"
                 THEN dpc' = "restart" /\ UNCHANGED dcalls
                 ELSE DomainReturn("UpdateFailed", args)
    /\ UNCHANGED <<domainCore, nameVars, displayVars, rendered, mirrorVars>>

\* how the restart command may end: dnsmasq is up again on the file as it
\* is, the command did not get to run in the sandbox, or the old dnsmasq was
\* killed and the new one did not come up
RestartOutcomes == {"ok", "notRun", "down"}

\* the resolver after the restart command
Restarted(r, res) ==
    IF res = "ok" THEN [running |-> TRUE, unloaded |-> 0]
    ELSE IF res = "down" THEN [r EXCEPT !.running = FALSE]
    ELSE r

\* pkill -9 dnsmasq; dnsmasq --conf-file=...
RestartResolver ==
    /\ dpc = "restart"
    /\ \E res \in RestartOutcomes :
          /\ resolver' = Restarted(resolver, res)
          /\ IF res = "ok"
             THEN /\ dargs' = [dargs EXCEPT !.restarted = TRUE]
                  /\ dpc' = "resolve"
                  /\ UNCHANGED dcalls
             ELSE /\ DomainReturn("RestartFailed", dargs)
                  /\ UNCHANGED dargs
    /\ UNCHANGED <<domainCore, nameVars, displayVars, rendered, conf, mirrorVars>>

\* what `dig +short <domain> | head -5` may give: an error, no output, or
\* addresses
Resolutions == {"failed", "empty", "ips"}

\* the return value after the initial resolution as a mutant: a resolution
\* that failed or gave no address is an error
ResolveResultStrict(res) == IF res = "ips" THEN "Success" ELSE "ResolveFailed"

\* the return value after the initial resolution: its failure is a warning
\* (runAddDomain) or ignored (AddDomainToContainer)
ResolveResult(res) == "Success"

\* the initial resolution; AddDomainToContainer returns after it,
\* runAddDomain goes on to offer the update of the local configuration
Resolve ==
    /\ dpc = "resolve"
    /\ \E res \in Resolutions :
          LET args == [dargs EXCEPT !.resolved = res] IN
          /\ dargs' = args
          /\ IF dargs.cmd /\ ResolveResult(res) = "Success"
             THEN dpc' = "offer" /\ UNCHANGED dcalls
             ELSE DomainReturn(ResolveResult(res), args)
    /\ UNCHANGED <<coreVars, nameVars, displayVars, rendered, conf, mirrorVars>>

\* the local configuration file: absent, empty, no YAML, without
\* firewall.allowed_domains, or with the list
ConfigFiles ==
    {[kind |-> k, domains |-> <<>>] : k \in {"absent", "empty", "invalid", "noList"}}
    \cup {[kind |-> "list", domains |-> <<DomainAxB>>]}

\* the configuration file with viper's list: viper's list counts only when
\* the file is absent or has no list
MirrorInits ==
    {[file |-> f, defaults |-> v] :
        f \in ConfigFiles, v \in {<<>>, <<DomainAB>>}}
    \ {m \in [file : ConfigFiles, defaults : {<<DomainAB>>}] :
           m.file.kind \in {"empty", "invalid", "list"}}

\* updateConfigWithDomain: domains before the check, the list of the file
\* or else viper's
LoadedDomains(file, defaults) ==
    IF file.kind = "list" THEN file.domains ELSE defaults

\* the check `d == domain` as a mutant: no entry is ever equal
AlreadyPresentNever(dom, loaded) == FALSE

\* for _, d := range domains { if d == domain ... }
AlreadyPresent(dom, loaded) == \E i \in DOMAIN loaded : loaded[i] = dom

\* updateConfigWithDomain: the result, the file afterwards, and whether
\* os.WriteFile was called.  An empty file leaves configData nil and the
\* assignment of configData["firewall"] panics; a failed write is a failed
\* open, which leaves the file as it was
UpdateConfigWithDomain(file, defaults, dom, writeOk) ==
    LET loaded == LoadedDomains(file, defaults) IN
    CASE file.kind = "invalid" ->
            [result |-> "error", file |-> file, wrote |-> FALSE]
      [] file.kind = "empty" ->
            [result |-> "panic", file |-> file, wrote |-> FALSE]
      [] OTHER ->
            IF AlreadyPresent(dom, loaded)
            THEN [result |-> "present", file |-> file, wrote |-> FALSE]
            ELSE IF writeOk
                 THEN [result |-> "written",
                       file |-> [kind |-> "list", domains |-> Append(loaded, dom)],
                       wrote |-> TRUE]
                 ELSE [result |-> "error", file |-> file, wrote |-> TRUE]

\* the answers typed at the offer
Responses == {<<>>, <<"y">>, <<"Y", "E", "S">>, <<"n">>}

\* strings.ToLower, on the letters of the answers
LowerChar(c) ==
    CASE c = "Y" -> "y" [] c = "E" -> "e" [] c = "S" -> "s" [] OTHER -> c

ToLower(str) == [i \in DOMAIN str |-> LowerChar(str[i])]

\* runAddDomain: the offer to add the domain to the local configuration;
\* a failed update is printed, and runAddDomain returns nil (a panic of
\* updateConfigWithDomain ends the command instead)
OfferMirror ==
    /\ dpc = "offer"
    /\ \E response \in Responses, writeOk \in BOOLEAN :
          IF ToLower(response) \in {<<"y">>, <<"y", "e", "s">>}
          THEN LET u == UpdateConfigWithDomain(cfgFile, viperDomains,
                                               dargs.domain, writeOk)
               IN  /\ cfgFile' = u.file
                   /\ ucalls' = Append(ucalls,
                         [domain |-> dargs.domain, result |-> u.result,
                          wrote |-> u.wrote,
                          before |-> LoadedDomains(cfgFile, viperDomains),
                          after |-> LoadedDomains(u.file, viperDomains)])
                   /\ DomainReturn(IF u.result = "panic" THEN "Panic" ELSE "Success",
                                   dargs)
          ELSE /\ DomainReturn("Success", dargs)
               /\ UNCHANGED <<cfgFile, ucalls>>
    /\ UNCHANGED <<coreVars, nameVars, displayVars, rendered, conf, dargs, viperDomains>>

\* the configuration the sandbox's setup wrote: no rule of the domains, or
\* the rule of one of them
InitDomain ==
    /\ PassIdle
    /\ prefix = LegacyPrefix
    /\ psRows = <<>>
    /\ CredIdle
    /\ FetchIdle
    /\ sandbox = [n \in SandboxNames |-> Malformed]
    /\ fs = [p \in Paths |-> Missing]
    /\ created = {}
    /\ conf \in {<<>>, <<IpsetRule(DomainAxB), ServerRule(DomainAxB)>>}
    /\ dpc = "idle"
    /\ dargs = [domain |-> <<>>, cmd |-> FALSE, mutated |-> FALSE, restarted |-> FALSE,
                resolved |-> "none"]
    /\ dcalls = <<>>
    /\ \E m \in MirrorInits : cfgFile = m.file /\ viperDomains = m.defaults
    /\ ucalls = <<>>
    /\ LateIdle /\ NamesIdle /\ RenderIdle /\ DisplayIdle

NextDomain ==
    \/ DomainCall
    \/ CheckRunning
    \/ CheckConf
    \/ AppendRule
    \/ RestartResolver
    \/ Resolve
    \/ OfferMirror

SpecDomain == InitDomain /\ [][NextDomain]_vars

----------------------------------------------------------------------------
(* Short names: GetShortName *)

\* the longest container name and prefix of a GetShortName call
MaxLen == 4

\* the characters of those names and prefixes
NameChars == {"a", "-"}

\* runRefreshTokens, the credential store reader, the detail fetch, the
\* domain propagator and the files at rest
AllIdle ==
    /\ PassIdle
    /\ psRows = <<>>
    /\ CredIdle
    /\ FetchIdle
    /\ sandbox = [n \in SandboxNames |-> Malformed]
    /\ fs = [p \in Paths |-> Missing]
    /\ created = {}

\* a call of GetShortName(containerName, prefix)
StripPrefix ==
    /\ ~short.called
    /\ short' = [called |-> TRUE, out |-> GetShortName(nameArg, prefix)]
    /\ UNCHANGED <<coreVars, domainVars, displayVars, rendered, nameArg>>

InitNames ==
    /\ AllIdle
    /\ LateIdle /\ DomainIdle /\ RenderIdle /\ DisplayIdle
    /\ prefix \in Listings(NameChars, MaxLen)
    /\ nameArg \in Listings(NameChars, MaxLen)
    /\ short = [called |-> FALSE, out |-> <<>>]

NextNames == StripPrefix

SpecNames == InitNames /\ [][NextNames]_vars

----------------------------------------------------------------------------
(* Display / ranking and indexed selection: Display, selectContainer *)

\* the most containers handed to selectContainer
MaxShown == 3

\* the names of the containers shown
ShownNames == {<<"a">>, <<"a", "b">>, <<"b">>}

\* the fields of Info the ranking reads
ShownRecords ==
    [Name : ShownNames, Status : {"running", "exited"}, NeedsAttention : BOOLEAN]

\* container.Info{}, returned beside an error
NoRecord == [Name |-> <<>>, Status |-> "", NeedsAttention |-> FALSE]

\* the order of the characters of a name
CharOrder == <<"-", "a", "b">>

CharRank(c) == CHOOSE n \in DOMAIN CharOrder : CharOrder[n] = c

\* a < b for strings
RECURSIVE StrLess(_, _)
StrLess(a, b) ==
    IF b = <<>> THEN FALSE
    ELSE IF a = <<>> THEN TRUE
         ELSE IF a[1] # b[1] THEN CharRank(a[1]) < CharRank(b[1])
              ELSE StrLess(Tail(a), Tail(b))

\* the sort key as a mutant: the name alone
LessByName(a, b) == StrLess(a.Name, b.Name)

\* the sort key of Display: running first, then needing attention first,
\* then the name ascending
Less(a, b) ==
    IF (a.Status = "running") # (b.Status = "running") THEN a.Status = "running"
    ELSE IF a.NeedsAttention # b.NeedsAttention THEN a.NeedsAttention
         ELSE StrLess(a.Name, b.Name)

\* a record put at its place in a sorted sequence
RECURSIVE Insert(_, _)
Insert(rec, recs) ==
    IF recs = <<>> THEN <<rec>>
    ELSE IF Less(rec, Head(recs)) THEN <<rec>> \o recs
         ELSE <<Head(recs)>> \o Insert(rec, Tail(recs))

\* Display: the containers in display order
RECURSIVE Display(_)
Display(recs) ==
    IF recs = <<>> THEN <<>> ELSE Insert(Head(recs), Display(Tail(recs)))

\* what may be typed at the prompt before the newline
Typed ==
    {<<>>, <<"0">>, <<"1">>, <<"2">>, <<"3">>, <<"4">>, <<"x">>, <<"1", "x">>,
     <<"-", "1">>, <<"+", "2">>, <<" ", "2", " ">>, <<"1", "2">>}

\* standard input: the line typed with its newline, or cut off before it
Stdins == {t \o <<"\n">> : t \in Typed} \cup {<<"1">>}

\* reader.ReadString('\n'): up to the first newline, an error without one
ReadString(stdin) ==
    IF \E n \in DOMAIN stdin : stdin[n] = "\n"
    THEN [err |-> FALSE,
          line |-> SubSeq(stdin, 1, CHOOSE n \in DOMAIN stdin :
                                       /\ stdin[n] = "\n"
                                       /\ \A m \in 1 .. n - 1 : stdin[m] # "\n")]
    ELSE [err |-> TRUE, line |-> stdin]

IsSpace(c) == c \in {" ", "\n", "\t", "\r"}

\* strings.TrimSpace
RECURSIVE TrimSpace(_)
TrimSpace(str) ==
    IF str = <<>> THEN str
    ELSE IF IsSpace(str[1]) THEN TrimSpace(Tail(str))
         ELSE IF IsSpace(str[Len(str)]) THEN TrimSpace(SubSeq(str, 1, Len(str) - 1))
              ELSE str

Digits == <<"0", "1", "2", "3", "4", "5", "6", "7", "8", "9">>

IsDigit(c) == \E n \in DOMAIN Digits : Digits[n] = c

DigitValue(c) == (CHOOSE n \in DOMAIN Digits : Digits[n] = c) - 1

\* the value of a sequence of digits
RECURSIVE DecimalValue(_)
DecimalValue(ds) ==
    IF ds = <<>> THEN 0
    ELSE 10 * DecimalValue(SubSeq(ds, 1, Len(ds) - 1)) + DigitValue(ds[Len(ds)])

\* strconv.Atoi: an optional sign and at least one digit, nothing else
Atoi(str) ==
    LET signed == str # <<>> /\ str[1] \in {"+", "-"}
        ds == IF signed THEN Tail(str) ELSE str
    IN  IF ds = <<>> \/ \E n \in DOMAIN ds : ~IsDigit(ds[n])
        THEN [err |-> TRUE, n |-> 0]
        ELSE [err |-> FALSE,
              n |-> IF signed /\ str[1] = "-" THEN -DecimalValue(ds)
                    ELSE DecimalValue(ds)]

\* the range check as a mutant: zero passes
InRangeFromZero(choice, n) == choice >= 0 /\ choice <= n

\* the range check of selectContainer
InRange(choice, n) == ~(choice < 1 \/ choice > n)

\* recs[i] of a Go slice: a panic outside 0 .. len-1
Index(recs, i) ==
    IF i >= 0 /\ i < Len(recs) THEN [kind |-> "selected", rec |-> recs[i + 1]]
    ELSE [kind |-> "panic", rec |-> NoRecord]

\* selectContainer: the containers are displayed in sorted order
ShowSorted ==
    /\ spc = "display"
    /\ sorted' = Display(shown)
    /\ spc' = "read"
    /\ UNCHANGED <<coreVars, domainVars, nameVars, rendered, shown, input, selection>>

\* selectContainer: the input is read, parsed and checked
ReadChoice ==
    /\ spc = "read"
    /\ \E stdin \in Stdins :
          /\ input' = stdin
          /\ LET r == ReadString(stdin)
                 a == Atoi(TrimSpace(r.line))
             IN  selection' =
                    IF r.err THEN [kind |-> "readFailed", rec |-> NoRecord]
                    ELSE IF a.err \/ ~InRange(a.n, Len(sorted))
                         THEN [kind |-> "invalid", rec |-> NoRecord]
                         ELSE Index(sorted, a.n - 1)
    /\ spc' = "done"
    /\ UNCHANGED <<coreVars, domainVars, nameVars, rendered, shown, sorted>>

InitSelect ==
    /\ AllIdle
    /\ prefix = LegacyPrefix
    /\ LateIdle /\ DomainIdle /\ NamesIdle /\ RenderIdle
    /\ shown \in Listings(ShownRecords, MaxShown)
    /\ sorted = <<>>
    /\ input = <<>>
    /\ selection = [kind |-> "none", rec |-> NoRecord]
    /\ spc = "display"

NextSelect ==
    \/ ShowSorted
    \/ ReadChoice

SpecSelect == InitSelect /\ [][NextSelect]_vars

----------------------------------------------------------------------------
(* Single-target sync: RefreshTokens *)

\* what RefreshTokens leaves alone
singleRest == <<credVars, fetchVars, domainVars, nameVars, displayVars, rendered,
                passNo, stopVars, moreVars, prefix, psRows, target, sources,
                syncCount>>

\* freshestPath and freshestTime before any replica is read
NoFreshest == [path |-> <<>>, time |-> ZeroTime]

\* the check of the host credentials
SingleReadHost ==
    /\ pc = "host"
    /\ LET r == ReadCredentials(fs[HostCredPath]) IN
           /\ freshest' = IF r.err THEN NoFreshest
                          ELSE [path |-> HostCredPath,
                                time |-> UnixMilli(r.creds.expiresAt)]
           /\ reads' = Append(reads, [location |-> HostLocation, ok |-> ~r.err,
                                      expiresAt |-> r.creds.expiresAt])
    /\ pc' = "list"
    /\ UNCHANGED <<singleRest, sandbox, fs, containers, idx, deferred, now, writes,
                   created, outcome>>

\* GetRunningContainers("mcl-")
SingleList ==
    /\ pc = "list"
    /\ \E ok \in BOOLEAN :
          IF ~ok
          THEN /\ Return("ListFailed")
               /\ UNCHANGED <<containers, idx>>
          ELSE /\ containers' = ListedNames(psRows, LegacyPrefix)
               /\ idx' = 1
               /\ pc' = IF containers' = <<>> THEN "check" ELSE "scan"
               /\ UNCHANGED <<fs, deferred, outcome>>
    /\ UNCHANGED <<singleRest, sandbox, freshest, now, reads, writes, created>>

\* one iteration of the loop over the containers: extract, read, compare
SingleScan ==
    /\ pc = "scan"
    /\ LET c == containers[idx]
           tmpFile == TmpFile(c)
       IN  \E res \in CopyOutcomes :
              /\ res = "ok" => sandbox[c].st # "missing"
              /\ IF res = "ok"
                 THEN /\ fs' = [fs EXCEPT ![tmpFile] = sandbox[c]]
                      /\ created' = created \cup {tmpFile}
                      /\ deferred' = Append(deferred, tmpFile)
                      /\ LET r == ReadCredentials(sandbox[c]) IN
                             /\ freshest' =
                                   IF ~r.err /\ After(UnixMilli(r.creds.expiresAt),
                                                      freshest.time)
                                   THEN [path |-> tmpFile,
                                         time |-> UnixMilli(r.creds.expiresAt)]
                                   ELSE freshest
                             /\ reads' = Append(reads,
                                   [location |-> c, ok |-> ~r.err,
                                    expiresAt |-> r.creds.expiresAt])
                 ELSE /\ IF res = "failedPartial"
                         THEN /\ fs' = [fs EXCEPT ![tmpFile] = Malformed]
                              /\ created' = created \cup {tmpFile}
                         ELSE UNCHANGED <<fs, created>>
                      /\ reads' = Append(reads, [location |-> c, ok |-> FALSE,
                                                 expiresAt |-> 0])
                      /\ UNCHANGED <<deferred, freshest>>
    /\ idx' = idx + 1
    /\ pc' = IF idx = Len(containers) THEN "check" ELSE "scan"
    /\ UNCHANGED <<singleRest, sandbox, containers, now, writes, outcome>>

\* no path, the second read of the freshest file, and IsTokenExpired at the
\* clock reading t
SingleCheck ==
    /\ pc = "check"
    /\ \E t \in 1 .. MaxTime :
          /\ now' = t
          /\ IF freshest.path = <<>>
             THEN Return("NoValidCredentials")
             ELSE LET r == ReadCredentials(fs[freshest.path]) IN
                  IF r.err
                  THEN Return("ReadFailed")
                  ELSE IF IsTokenExpired(r.creds.expiresAt, t)
                       THEN Return("AllExpired")
                       ELSE /\ pc' = "copy"
                            /\ UNCHANGED <<fs, deferred, outcome>>
    /\ UNCHANGED <<singleRest, sandbox, containers, idx, freshest, reads, writes,
                   created>>

\* docker cp into the target, then chown; an error of either is returned
SingleCopy ==
    /\ pc = "copy"
    /\ \E cpOk \in BOOLEAN, chownOk \in BOOLEAN :
          /\ writes' = Append(writes, [target |-> target, cp |-> cpOk,
                                        chown |-> cpOk /\ chownOk])
          /\ sandbox' = IF cpOk THEN [sandbox EXCEPT ![target] = fs[freshest.path]]
                        ELSE sandbox
          /\ Return(IF ~cpOk THEN "CopyFailed"
                    ELSE IF ~chownOk THEN "ChownFailed" ELSE "Success")
    /\ UNCHANGED <<singleRest, containers, idx, freshest, now, reads, created>>

\* RefreshTokens is called for a sandbox of the installation, whose running
\* sandboxes carry the configured or the legacy prefix
InitSingle ==
    /\ prefix \in Prefixes
    /\ \E names \in {q \in Listings(SandboxNames, MaxRows) : Distinct(q)} :
          /\ psRows = [i \in DOMAIN names |-> Line(names[i], "running", GoodStamp)]
          /\ sandbox \in {f \in [SandboxNames -> {Malformed} \cup Credentials] :
                            \A n \in SandboxNames :
                               (n \notin Range(names)
                                \/ ~(HasPrefix(n, prefix) \/ HasPrefix(n, LegacyPrefix)))
                               => f[n] = Malformed}
          /\ target \in {n \in Range(names) :
                            HasPrefix(n, prefix) \/ HasPrefix(n, LegacyPrefix)}
    /\ \E h \in {Missing} \cup Credentials :
          fs = [p \in Paths |-> IF p = HostCredPath THEN h ELSE Missing]
    /\ pc = "host"
    /\ containers = <<>>
    /\ idx = 1
    /\ sources = <<>>
    /\ deferred = <<>>
    /\ freshest = NoFreshest
    /\ now = 1
    /\ syncCount = 0
    /\ reads = <<>>
    /\ writes = <<>>
    /\ created = {}
    /\ outcome = "running"
    /\ passNo = 1
    /\ StopIdle
    /\ MoreIdle
    /\ CredIdle
    /\ FetchIdle
    /\ DomainIdle /\ NamesIdle /\ RenderIdle /\ DisplayIdle

NextSingle ==
    \/ SingleReadHost
    \/ SingleList
    \/ SingleScan
    \/ SingleCheck
    \/ SingleCopy

SpecSingle == InitSingle /\ [][NextSingle]_vars

----------------------------------------------------------------------------
(* `maestro stop` without a name: stopDormantContainers *)

\* what stopDormantContainers leaves alone
stopRest == <<passVars, credVars, fetchVars, sandbox, fs, created, target, passNo,
              moreVars, domainVars, nameVars, displayVars, rendered>>

\* the most records the detail fetch returns to stopDormantContainers
MaxStop == 3

\* what GetRunningContainers may return: records of distinct sandboxes,
\* each dormant or not
StopRecords == [Name : SandboxNames \cup {MclBaz}, IsDormant : BOOLEAN]

StopListings ==
    {q \in Listings(StopRecords, MaxStop) :
        \A i, j \in DOMAIN q : q[i].Name = q[j].Name => i = j}

\* the lines typed at `Stop all dormant containers? (y/N): `
StopTyped ==
    {<<>>, <<"y">>, <<"Y">>, <<"y", "e", "s">>, <<" ", "Y", "E", "S", " ">>,
     <<"n">>, <<"y", "e">>}

\* standard input: the line typed with its newline, or cut off before it
StopStdins == {t \o <<"\n">> : t \in StopTyped} \cup {<<"y">>}

\* the filter of the stop loop as a mutant: every record is a candidate
StopCandidateAny(c) == TRUE

\* the filter of the stop loop: `if c.IsDormant`
StopCandidate(c) == c.IsDormant

\* response = TrimSpace(ToLower(response)); response is "y" or "yes"
Confirmed(line) == TrimSpace(ToLower(line)) \in {<<"y">>, <<"y", "e", "s">>}

\* the stop loop is over: `continue` on a failure, so after the last container
StopLoopDone(log) == Len(log) = Len(dormantContainers)

\* a return of stopDormantContainers, with the count it reported
StopReturn(result, reported) ==
    /\ stopOutcome' = [result |-> result, reported |-> reported]
    /\ stpc' = "returned"

\* GetRunningContainers and the filter for the dormant containers
StopFetch ==
    /\ stpc = "call"
    /\ \E ok \in BOOLEAN :
          IF ~ok
          THEN /\ StopReturn("ListFailed", 0)
               /\ UNCHANGED <<stopFetched, dormantContainers>>
          ELSE \E recs \in StopListings :
                  /\ stopFetched' = recs
                  /\ dormantContainers' = SelectSeq(recs, StopCandidate)
                  /\ IF dormantContainers' = <<>>
                     THEN StopReturn("NoneDormant", 0)
                     ELSE stpc' = "prompt" /\ UNCHANGED stopOutcome
    /\ UNCHANGED <<stopRest, stopInput, stopLog, successCount>>

\* the prompt: a read error is returned, any answer but y or yes cancels
StopPrompt ==
    /\ stpc = "prompt"
    /\ \E stdin \in StopStdins :
          /\ stopInput' = stdin
          /\ LET r == ReadString(stdin) IN
                IF r.err THEN StopReturn("ReadFailed", 0)
                ELSE IF Confirmed(r.line)
                     THEN stpc' = "stopping" /\ UNCHANGED stopOutcome
                     ELSE StopReturn("Cancelled", 0)
    /\ UNCHANGED <<stopRest, stopFetched, dormantContainers, stopLog, successCount>>

\* one iteration of the stop loop: `docker stop <name>`
StopOne ==
    /\ stpc = "stopping"
    /\ ~StopLoopDone(stopLog)
    /\ \E ok \in BOOLEAN :
          /\ stopLog' = Append(stopLog,
                [name |-> dormantContainers[Len(stopLog) + 1].Name, ok |-> ok])
          /\ successCount' = IF ok THEN successCount + 1 ELSE successCount
    /\ UNCHANGED <<stopRest, stpc, stopFetched, dormantContainers, stopInput,
                   stopOutcome>>

\* the report of the count, and `return nil`
StopFinish ==
    /\ stpc = "stopping"
    /\ StopLoopDone(stopLog)
    /\ StopReturn("Done", successCount)
    /\ UNCHANGED <<stopRest, stopFetched, dormantContainers, stopInput, stopLog,
                   successCount>>

InitStop ==
    /\ AllIdle
    /\ prefix = LegacyPrefix
    /\ target = <<>>
    /\ passNo = 1
    /\ MoreIdle
    /\ DomainIdle /\ NamesIdle /\ RenderIdle /\ DisplayIdle
    /\ stpc = "call"
    /\ stopFetched = <<>>
    /\ dormantContainers = <<>>
    /\ stopInput = <<>>
    /\ stopLog = <<>>
    /\ successCount = 0
    /\ stopOutcome = [result |-> "none", reported |-> 0]

NextStop ==
    \/ StopFetch
    \/ StopPrompt
    \/ StopOne
    \/ StopFinish

SpecStop == InitStop /\ [][NextStop]_vars

----------------------------------------------------------------------------
(* A reconciliation pass beside sandboxes that refresh their credentials *)

\* what a sandbox's own refresh leaves alone
raceRest == <<passVars, credVars, fetchVars, fs, created, restVars>>

\* a running sandbox refreshes its credential while the pass is at work:
\* its file gets a later expiry (or, unreadable before, an expiry)
SandboxRefresh ==
    /\ pc # "done"
    /\ \E c \in Range(ListedNames(psRows, prefix)), e \in 1 .. MaxTime :
          /\ sandbox[c].st = "ok" => e > sandbox[c].expiresAt
          /\ sandbox' = [sandbox EXCEPT ![c] = Cred(e)]
    /\ UNCHANGED raceRest

\* a pass with the legacy prefix configured
InitRace == InitRefresh /\ prefix = LegacyPrefix

NextRace ==
    \/ NextRefresh
    \/ SandboxRefresh

SpecRace == InitRace /\ [][NextRace]_vars

----------------------------------------------------------------------------
(* Two reconciliation passes in a row *)

\* every write of the pass that returned succeeded
AllSynced ==
    /\ pc = "done"
    /\ outcome = "Success"
    /\ \A i \in DOMAIN writes : writes[i].ok

\* `maestro refresh-tokens` is run again right after a pass that synced
\* every target: runRefreshTokens starts anew on the files as they are
SecondPass ==
    /\ passNo = 1
    /\ AllSynced
    /\ passNo' = 2
    /\ pc' = "host"
    /\ containers' = <<>>
    /\ idx' = 1
    /\ sources' = <<>>
    /\ deferred' = <<>>
    /\ freshest' = ZeroSource
    /\ syncCount' = 0
    /\ reads' = <<>>
    /\ writes' = <<>>
    /\ outcome' = "running"
    /\ UNCHANGED <<prefix, psRows, now, sandbox, fs, created, credVars, fetchVars,
                   domainVars, nameVars, displayVars, rendered, target, stopVars,
                   moreVars>>

\* passes with the legacy prefix or a prefix that begins with it configured
InitTwice == InitRefresh /\ prefix \in {LegacyPrefix, <<"m", "c", "l", "-", "d", "-">>}

NextTwice ==
    \/ NextRefresh
    \/ SecondPass

SpecTwice == InitTwice /\ [][NextTwice]_vars

----------------------------------------------------------------------------
(* The container loop of the propagation with its ownership fix observed *)

\* what the pass leaves alone outside the observations
tallyRest == <<domainVars, nameVars, displayVars, rendered, target, passNo, stopVars,
               resolver, batchVars, modalVars>>

\* the chown command of the container loop: run after a copy that succeeded
\* ("none" when the loop went on to the next container before it)
ChownResult(copied, chownOk) ==
    IF ~copied THEN "none" ELSE IF chownOk THEN "ok" ELSE "failed"

\* step 6, one iteration of the loop, as SyncContainer, with the outcome of
\* the copy and of the ownership fix and the change of the tally put on record
SyncContainerOwned ==
    /\ pc = "sync"
    /\ LET c == containers[idx]
       IN  IF IsSource(c)
           THEN UNCHANGED <<writes, sandbox, syncCount, chowns>>
           ELSE \E cpOk \in BOOLEAN, chownOk \in BOOLEAN :
                   /\ SyncTo(c, cpOk, chownOk)
                   /\ chowns' = Append(chowns,
                         [target |-> c, copied |-> Copied(cpOk),
                          chown |-> ChownResult(Copied(cpOk), chownOk),
                          counted |-> syncCount' # syncCount])
    /\ idx' = idx + 1
    /\ pc' = IF idx = Len(containers) THEN "finish" ELSE "sync"
    /\ UNCHANGED <<tallyRest, credVars, fetchVars, prefix, psRows, fs, containers,
                   sources, deferred, freshest, now, reads, created, outcome>>

\* passes over sandboxes of the legacy prefix
InitTally == InitRefresh /\ prefix = LegacyPrefix

NextTally ==
    \/ ReadHost
    \/ ListContainers
    \/ ScanContainer
    \/ Select
    \/ Validate
    \/ SyncHost
    \/ SyncContainerOwned
    \/ Finish

SpecTally == InitTally /\ [][NextTally]_vars

----------------------------------------------------------------------------
(* Batch creation: createContainersInParallel *)

\* the most tasks selected for one batch
MaxTasks == 2

\* Task.Number of the tasks found in the file
TaskNumbers == {1, 2}

\* the selections promptTaskSelection may return to a caller that goes on:
\* not empty, a task may be selected more than once
Selections == {q \in Listings(TaskNumbers, MaxTasks) : q # <<>>}

\* the workers: one goroutine for each selected task
Workers == DOMAIN tasks

\* make(chan ContainerResult, n) as a mutant: room for one result
OneSlot(n) == 1

\* make(chan ContainerResult, len(tasks)): the capacity of the channel
Capacity(n) == n

\* how the steps of a worker may end: the three `return`s after a failure,
\* or the container created
WorkOutcomes == {"branch", "name", "create", "ok"}

\* ContainerResult as the worker fills it in
ResultOf(number, res) ==
    [TaskNumber |-> number, Success |-> res = "ok",
     Message |-> CASE res = "branch" -> "failed to generate branch"
                   [] res = "name" -> "failed to get container name"
                   [] res = "create" -> "failed to create container"
                   [] res = "ok" -> "containerName"]

\* what a behaviour of the batch leaves alone
batchRest == <<passVars, credVars, fetchVars, sandbox, fs, created, target, passNo,
               stopVars, chowns, resolver, modalVars,
               domainVars, nameVars, displayVars, rendered>>

\* a worker: branch, container name and container; after a failure it goes
\* to send its result, after the creation to the mutex
Work(w) ==
    /\ wpc[w] = "work"
    /\ \E res \in WorkOutcomes :
          /\ wres' = [wres EXCEPT ![w] = ResultOf(tasks[w], res)]
          /\ wpc' = [wpc EXCEPT ![w] = IF res = "ok" THEN "lock" ELSE "send"]
    /\ UNCHANGED <<batchRest, tasks, bmu, createdContainers, results, closed, collected,
                   createdCount, bpc, batchReport>>

\* a worker: mu.Lock()
WorkerLock(w) ==
    /\ wpc[w] = "lock"
    /\ bmu = 0
    /\ bmu' = w
    /\ wpc' = [wpc EXCEPT ![w] = "append"]
    /\ UNCHANGED <<batchRest, tasks, wres, createdContainers, results, closed, collected,
                   createdCount, bpc, batchReport>>

\* a worker: createdContainers = append(...); mu.Unlock()
WorkerAppend(w) ==
    /\ wpc[w] = "append"
    /\ createdContainers' = Append(createdContainers, tasks[w])
    /\ bmu' = 0
    /\ wpc' = [wpc EXCEPT ![w] = "send"]
    /\ UNCHANGED <<batchRest, tasks, wres, results, closed, collected, createdCount, bpc,
                   batchReport>>

\* a worker: results <- result goes through when the channel has room; the
\* worker returns and its deferred wg.Done() runs
Send(w) ==
    /\ wpc[w] = "send"
    /\ ~closed
    /\ Len(results) < Capacity(Len(tasks))
    /\ results' = Append(results, wres[w])
    /\ wpc' = [wpc EXCEPT ![w] = "done"]
    /\ UNCHANGED <<batchRest, tasks, wres, bmu, createdContainers, closed, collected,
                   createdCount, bpc, batchReport>>

\* the closing goroutine: wg.Wait() returns, close(results)
CloseResults ==
    /\ ~closed
    /\ \A w \in Workers : wpc[w] = "done"
    /\ closed' = TRUE
    /\ UNCHANGED <<batchRest, tasks, wpc, wres, bmu, createdContainers, results, collected,
                   createdCount, bpc, batchReport>>

\* the collector: one round of `for result := range results`
Collect ==
    /\ bpc = "collect"
    /\ results # <<>>
    /\ collected' = Append(collected, Head(results))
    /\ createdCount' = IF Head(results).Success THEN createdCount + 1 ELSE createdCount
    /\ results' = Tail(results)
    /\ UNCHANGED <<batchRest, tasks, wpc, wres, bmu, createdContainers, closed, bpc,
                   batchReport>>

\* the collector: the channel is closed and drained, the loop ends, the
\* summary is printed, `return nil`
Summarize ==
    /\ bpc = "collect"
    /\ results = <<>>
    /\ closed
    /\ batchReport' = [created |-> createdCount, of |-> Len(tasks)]
    /\ bpc' = "returned"
    /\ UNCHANGED <<batchRest, tasks, wpc, wres, bmu, createdContainers, results, closed,
                   collected, createdCount>>

\* createContainersInParallel has launched a worker for each selected task
\* and the closing goroutine, and enters its loop
InitBatch ==
    /\ AllIdle
    /\ prefix = LegacyPrefix
    /\ DomainIdle /\ NamesIdle /\ RenderIdle /\ DisplayIdle
    /\ target = <<>>
    /\ passNo = 1
    /\ StopIdle
    /\ chowns = <<>>
    /\ resolver = [running |-> TRUE, unloaded |-> 0]
    /\ ModalIdle
    /\ tasks \in Selections
    /\ wpc = [w \in DOMAIN tasks |-> "work"]
    /\ wres = [w \in DOMAIN tasks |->
                  [TaskNumber |-> tasks[w], Success |-> FALSE, Message |-> ""]]
    /\ bmu = 0
    /\ createdContainers = <<>>
    /\ results = <<>>
    /\ closed = FALSE
    /\ collected = <<>>
    /\ createdCount = 0
    /\ bpc = "collect"
    /\ batchReport = [created |-> 0, of |-> 0]

NextBatch ==
    \/ \E w \in Workers : Work(w)
    \/ \E w \in Workers : WorkerLock(w)
    \/ \E w \in Workers : WorkerAppend(w)
    \/ \E w \in Workers : Send(w)
    \/ CloseResults
    \/ Collect
    \/ Summarize

\* the Go scheduler runs every goroutine that can take a step
SpecBatch == InitBatch /\ [][NextBatch]_vars /\ WF_vars(NextBatch)

----------------------------------------------------------------------------
(* Modal dialogs of the terminal interface: Modal.Update *)

\* the most key events one modal is sent
MaxKeys == 3

\* msg.String() of the key events sent: the keys Update names, a key that is
\* the shortcut of an action ("y"), and a key that is none of these ("x")
Keys == {"tab", "shift+tab", "ctrl+s", "esc", "left", "right", "enter", " ",
         "down", "y", "x"}

\* the keys a modal with an active viewport scrolls on, of those sent
ScrollKeys == {"down", " "}

\* a modal without form fields, by its kind and the shortcuts of its actions
Dialog(type, actions, scrolls) ==
    [Type |-> type, Actions |-> actions, SelectedAction |-> 0, DisableEsc |-> FALSE,
     useViewport |-> scrolls, scroll |-> 0, textarea |-> FALSE, textinputs |-> 0,
     checkboxes |-> <<>>, focusedField |-> 0, edits |-> 0]

\* NewInfoModal, NewErrorModal, NewConfirmModal, NewLoadingModal,
\* NewScrollableInfoModal (and its wide variant), NewScrollableHelpModal
Constructed ==
    {Dialog("ModalInfo", <<"enter">>, FALSE), Dialog("ModalError", <<"enter">>, FALSE),
     Dialog("ModalConfirm", <<"y", "n">>, FALSE), Dialog("ModalLoading", <<>>, FALSE),
     Dialog("ModalInfo", <<"enter">>, TRUE), Dialog("ModalHelp", <<"enter">>, TRUE)}

\* form modals: a textarea, text inputs, checkboxes and buttons, the first
\* field focused
Forms ==
    {[Dialog("ModalForm", a, FALSE) EXCEPT !.textarea = ta, !.textinputs = n,
                                           !.checkboxes = c] :
        a \in {<<"enter">>, <<"enter", "esc">>}, ta \in BOOLEAN, n \in 0 .. 1,
        c \in {<<>>, <<FALSE>>}}

\* what Update returns: the modal, or nil; "panic" when it faulted
Keep(m) == [m |-> m, st |-> "open"]
Gone(m) == [m |-> m, st |-> "nil"]
Fault(m) == [m |-> m, st |-> "panic"]

\* the Esc key as a mutant: Esc dismisses every modal
DismissedAlways(m) == TRUE

\* the Esc key dismisses the modal unless DisableEsc is set
Dismissed(m) == ~m.DisableEsc

\* the remainder of the integer division of Go; a zero divisor panics
Remainder(a, b) == IF b = 0 THEN [panic |-> TRUE, val |-> 0]
                   ELSE [panic |-> FALSE, val |-> a % b]

\* Update on a key event, for a modal that is no form and whose viewport did
\* not take the key
DialogKey(m, k) ==
    LET n == Len(m.Actions) IN
    CASE k = "esc" -> IF Dismissed(m) THEN Gone(m) ELSE Keep(m)
      [] k = "enter" ->
            IF n > 0 /\ ~(m.SelectedAction + 1 \in 1 .. n) THEN Fault(m) ELSE Gone(m)
      [] k = "left" ->
            Keep(IF m.SelectedAction > 0
                 THEN [m EXCEPT !.SelectedAction = @ - 1] ELSE m)
      [] k = "right" ->
            Keep(IF m.SelectedAction < n - 1
                 THEN [m EXCEPT !.SelectedAction = @ + 1] ELSE m)
      [] k = "tab" ->
            IF Remainder(m.SelectedAction + 1, n).panic THEN Fault(m)
            ELSE Keep([m EXCEPT !.SelectedAction = Remainder(@ + 1, n).val])
      [] OTHER ->
            IF \E i \in 1 .. n : m.Actions[i] = k
            THEN Gone([m EXCEPT !.SelectedAction =
                          (CHOOSE i \in 1 .. n :
                              /\ m.Actions[i] = k
                              /\ \A j \in 1 .. i - 1 : m.Actions[j] # k) - 1])
            ELSE Keep(m)

\* Update on a key event for a form: the keys it handles, and the keys left
\* to the focused textarea or text input
FormKey(m, k) ==
    LET actionsStartIdx == 1 + m.textinputs + Len(m.checkboxes)
        checkboxStartIdx == 1 + m.textinputs
        totalFields == 1 + m.textinputs + Len(m.checkboxes) + Len(m.Actions)
        onActionButton == m.focusedField >= actionsStartIdx
        onCheckbox == m.focusedField >= checkboxStartIdx
                          /\ m.focusedField < actionsStartIdx
        onTextarea == m.focusedField = 0
        onTextinput == m.focusedField > 0 /\ m.focusedField < checkboxStartIdx
        actionsEndIdx == actionsStartIdx + Len(m.Actions) - 1
        delegated == IF (onTextarea /\ m.textarea) \/ onTextinput
                     THEN Keep([m EXCEPT !.edits = @ + 1]) ELSE Keep(m)
    IN
    CASE k = "tab" ->
            IF Remainder(m.focusedField + 1, totalFields).panic THEN Fault(m)
            ELSE Keep([m EXCEPT !.focusedField = Remainder(@ + 1, totalFields).val])
      [] k = "shift+tab" ->
            Keep([m EXCEPT !.focusedField = IF @ - 1 < 0 THEN totalFields - 1
                                            ELSE @ - 1])
      [] k = "ctrl+s" -> Gone(m)
      [] k = "esc" -> IF Dismissed(m) THEN Gone(m) ELSE Keep(m)
      [] k = "left" ->
            IF onActionButton /\ m.focusedField > actionsStartIdx
            THEN Keep([m EXCEPT !.focusedField = @ - 1]) ELSE delegated
      [] k = "right" ->
            IF onActionButton /\ m.focusedField < actionsEndIdx
            THEN Keep([m EXCEPT !.focusedField = @ + 1]) ELSE delegated
      [] k = "enter" -> IF onActionButton THEN Gone(m) ELSE delegated
      [] k = " " ->
            IF onCheckbox /\ m.focusedField - checkboxStartIdx < Len(m.checkboxes)
            THEN Keep([m EXCEPT !.checkboxes[m.focusedField - checkboxStartIdx + 1]
                                    = ~@])
            ELSE delegated
      [] OTHER -> delegated

\* Modal.Update on a tea.KeyMsg
Update(m, k) ==
    IF m.Type = "ModalForm" THEN FormKey(m, k)
    ELSE IF m.useViewport /\ k \in ScrollKeys
         THEN Keep([m EXCEPT !.scroll = 1])
         ELSE DialogKey(m, k)

\* what a behaviour of the modal leaves alone
modalRest == <<passVars, credVars, fetchVars, sandbox, fs, created, target, passNo,
               stopVars, chowns, resolver, batchVars,
               domainVars, nameVars, displayVars, rendered>>

\* the interface hands a key event to the open modal
HandleKey ==
    /\ mst = "open"
    /\ keyCount < MaxKeys
    /\ \E k \in Keys :
          /\ lastKey' = k
          /\ modal' = Update(modal, k).m
          /\ mst' = Update(modal, k).st
    /\ keyCount' = keyCount + 1
    /\ UNCHANGED modalRest

\* a modal as its constructor made it, with DisableEsc set or not
InitModal ==
    /\ AllIdle
    /\ prefix = LegacyPrefix
    /\ DomainIdle /\ NamesIdle /\ RenderIdle /\ DisplayIdle
    /\ target = <<>>
    /\ passNo = 1
    /\ StopIdle
    /\ chowns = <<>>
    /\ resolver = [running |-> TRUE, unloaded |-> 0]
    /\ BatchIdle
    /\ \E made \in Constructed \cup Forms, disable \in BOOLEAN :
          modal = [made EXCEPT !.DisableEsc = disable]
    /\ mst = "open"
    /\ lastKey = ""
    /\ keyCount = 0

NextModal == HandleKey

SpecModal == InitModal /\ [][NextModal]_vars

----------------------------------------------------------------------------
(* Properties of the freshness reconciler *)

\* the pass went past its Validate step into Propagate
Propagating == pc \in {"synchost", "sync", "finish"} \/ outcome = "Success"

\* the locations the propagation writes were attempted on
Written == {writes[i].target : i \in DOMAIN writes}

\* the replica locations of the pass other than the source
Targets ==
    (IF freshest.location # HostLocation THEN {HostLocation} ELSE {})
        \cup {c \in Range(containers) : c # freshest.location}

\* the number of writes attempted on a location
Attempts(loc) == Cardinality({i \in DOMAIN writes : writes[i].target = loc})

\* the successfully read replicas, in scan order
ReadOk == SelectSeq(reads, LAMBDA r : r.ok)

\* C1: once Select has run, freshest is a successfully read replica whose
\* expiry no other read replica exceeds, and the first such in scan order.
C1_SelectsFirstMaximal ==
    pc = "validate" =>
        \E i \in DOMAIN sources :
            /\ freshest = sources[i]
            /\ \A j \in DOMAIN sources : sources[j].expiresAt <= sources[i].expiresAt
            /\ \A j \in 1 .. (i - 1) : sources[j].expiresAt < sources[i].expiresAt

C3_ExpiredIsTerminal ==
    (pc = "done" /\ ~freshest.creds.nil /\ freshest.creds.expiresAt < now) =>
        (outcome = "AllCredentialsExpired" /\ writes = <<>>)

C3_Witness ==
    /\ outcome = "AllCredentialsExpired"
    /\ Len(sources) = 3
    /\ freshest.location = MclFoo

\* C4: with no replica read successfully nothing is ever written, and a
\* pass whose scan completed that way ends NoCredentialsFound.
C4_NoReplicaIsTerminal ==
    /\ ReadOk = <<>> => writes = <<>>
    /\ (pc = "done" /\ ReadOk = <<>> /\ outcome # "ListFailed") =>
           outcome = "NoCredentialsFound"

C4_Witness ==
    /\ outcome = "NoCredentialsFound"
    /\ Len(reads) = 3

\* C6: whatever writes failed, a pass that propagated has attempted every
\* location other than the source, exactly once.
C6_EveryTargetOnce ==
    outcome = "Success" => \A loc \in Targets : Attempts(loc) = 1

\* C7, as claimed: a pass that propagated fails when no write succeeded, and
\* only then.
C7_EscalatesWhenNoneSynced ==
    (pc = "done" /\ outcome \in {"Success", "PropagationFailed"}) =>
        (outcome = "PropagationFailed" <=> syncCount = 0)

\* C7, amended: the tally is the number of writes that succeeded, and a pass
\* that reached Propagate returns success whatever the tally.
C7_TallyNeverEscalates ==
    /\ Propagating =>
          syncCount = Cardinality({i \in DOMAIN writes : writes[i].ok})
    /\ (pc = "done" /\ ~freshest.creds.nil /\ freshest.creds.expiresAt >= now) =>
           outcome = "Success"

C7_Witness ==
    /\ outcome = "Success"
    /\ Len(writes) = 2
    /\ syncCount = 0

\* C8: every listed container is read whatever reads failed before it, the
\* candidates are exactly the successful reads in scan order, and a pass
\* with one successful read does not end NoCredentialsFound.
C8_FailedReadOnlyDropsReplica ==
    /\ pc \in {"select", "validate"} =>
          /\ [i \in DOMAIN reads |-> reads[i].location]
                = <<HostLocation>> \o containers
          /\ [i \in DOMAIN sources |-> sources[i].location]
                = [i \in DOMAIN ReadOk |-> ReadOk[i].location]
    /\ ReadOk # <<>> => outcome # "NoCredentialsFound"

C8_Witness ==
    /\ pc = "validate"
    /\ Len(reads) = 3
    /\ ~reads[1].ok /\ ~reads[2].ok /\ reads[3].ok

\* C9: when the pass has returned, no temporary file it created is left.
C9_TemporaryFilesRemoved ==
    pc = "done" => \A p \in created : fs[p].st = "missing"

----------------------------------------------------------------------------
(* Properties of the credential store reader *)

\* C5, as claimed: IsTokenExpired reports a credential expired exactly when
\* its expiry is at or before the clock reading.
C5_ExpiredInclusive ==
    verdict.called => (verdict.expired <=> tokenExpiry <= verdict.at)

\* C5, amended: a credential is classified expired exactly when its expiry is
\* strictly before the clock reading, by IsTokenExpired and by GetAuthStatus;
\* a credential expiring at the clock reading is still valid.
C5_ExpiredExclusive ==
    /\ verdict.called => (verdict.expired <=> tokenExpiry < verdict.at)
    /\ authStatus.kind = "EXPIRED" => tokenExpiry < authStatus.at
    /\ authStatus.kind \in {"WARNING", "VALID"} => tokenExpiry >= authStatus.at

C5_Witness ==
    /\ verdict.called /\ verdict.at = tokenExpiry /\ ~verdict.expired
    /\ authStatus.kind = "WARNING" /\ authStatus.at = tokenExpiry

----------------------------------------------------------------------------
(* Properties of the sandbox registry query and the detail fetcher *)

\* the rows of the listing: the lines of four parts
ListedRows == SelectSeq(psRows, LAMBDA l : Len(l) = 4)

\* the names of the records returned
ReturnedNames ==
    [i \in DOMAIN fetched.containers |-> fetched.containers[i].Name]

\* C10: a successful registry query returns one record for each listed row
\* whose name starts with the prefix, in the order listed, and no record
\* for any other row; no probe is ever launched for a name that does not
\* start with the prefix.
C10_ExactlyPrefixedRows ==
    /\ (fetched.returned /\ ~fetched.err) =>
          ReturnedNames =
             LET kept == SelectSeq(ListedRows, LAMBDA l : HasPrefix(l[1], prefix))
             IN  [i \in DOMAIN kept |-> kept[i][1]]
    /\ \A p \in launched : HasPrefix(p[1], prefix)

C10_Witness ==
    /\ [i \in DOMAIN ListedRows |-> ListedRows[i][1]] = <<MclFoo, OtherBar, MclBaz>>
    /\ prefix = LegacyPrefix
    /\ fetched.returned
    /\ ReturnedNames = <<MclFoo, MclBaz>>
    /\ {p[1] : p \in launched} = {MclFoo, MclBaz}

----------------------------------------------------------------------------
(* Properties of the detail fetch *)

\* the listed rows whose name starts with the prefix
MatchingRows == SelectSeq(ListedRows, LAMBDA l : HasPrefix(l[1], prefix))

\* C11: a failed bulk list call returns the error with no record at all, and
\* no row was started and no probe launched; no error arises after the bulk
\* call, and a fetch that had no matching row returns the empty result.
C11_BulkFailureIsTotal ==
    /\ [](fetched.err =>
            /\ fetched.returned /\ fetched.containers = <<>>
            /\ basics = <<>> /\ launched = {})
    /\ [][/\ fetched'.err => fpc = "call"
          /\ (fpc = "wait" /\ fpc' = "returned" /\ MatchingRows = <<>>) =>
                 (~fetched'.err /\ fetched'.containers = <<>> /\ launched' = {})]_vars

C11_Witness ==
    /\ fetched.returned /\ fetched.err
    /\ Len(MatchingRows) = 2

\* the probes of row i that are still at work
Unfinished(i) == {k \in AllProbeKinds : probes[i][k] \in {"running", "holding"}}

\* C12: when the fetch has returned, every row task has ended and no probe
\* of any row is running or inside its write; the records handed to the
\* caller are the rows' final records.
C12_ReturnsAfterFullJoin ==
    (fetched.returned /\ ~fetched.err) =>
        /\ \A i \in Rows : rowpc[i] = "done" /\ Unfinished(i) = {}
        /\ fetched.containers = [i \in Rows |-> info[i]]

C12_Witness ==
    /\ fetched.returned
    /\ Len(fetched.containers) = 2
    /\ \E i \in Rows : \A k \in ProbeKinds(fetchAll) : probes[i][k] = "done"
    /\ fetchAll

\* the probes of row i that have failed
FailedProbes(i) == {k \in AllProbeKinds : locals[i][k].err}

\* C13: whatever probes failed, a fetch whose bulk call succeeded returns
\* without error one record for each matching row, in order and under the
\* row's name.
C13_RowsSurviveProbeFailures ==
    /\ (fetched.returned /\ basics # <<>>) => ~fetched.err
    /\ (fetched.returned /\ ~fetched.err) =>
          /\ Len(fetched.containers) = Len(MatchingRows)
          /\ \A i \in DOMAIN MatchingRows :
                 fetched.containers[i].Name = MatchingRows[i][1]

C13_Witness ==
    /\ fetched.returned /\ ~fetched.err
    /\ fetchAll
    /\ Len(fetched.containers) = 2
    /\ \E i \in Rows : FailedProbes(i) = AllProbeKinds

\* a status without the padding of its column
RECURSIVE TrimRight(_)
TrimRight(s) ==
    IF s # <<>> /\ s[Len(s)] = " " THEN TrimRight(SubSeq(s, 1, Len(s) - 1)) ELSE s

\* the documented sentinel of a field
Sentinel(k) ==
    CASE k = "Branch" -> "unknown"
      [] k = "NeedsAttention" -> FALSE
      [] k = "IsDormant" -> TRUE
      [] k = "LastActivity" -> "-"
      [] k = "GitStatus" -> <<"-">>

\* field k of a record holds its sentinel (the git status up to its padding)
HoldsSentinel(rec, k) ==
    CASE k = "AuthStatus" -> rec[k] \in {"NO AUTH", "INVALID"}
      [] k = "GitStatus" -> TrimRight(rec[k]) = Sentinel(k)
      [] OTHER -> rec[k] = Sentinel(k)

\* C14: in every record returned, the field of each probe that failed holds
\* its sentinel, and the field of every probe that ran holds that probe's
\* own value.
C14_FailedProbeGivesSentinel ==
    (fetched.returned /\ ~fetched.err) =>
        \A i \in Rows :
            /\ \A k \in FailedProbes(i) : HoldsSentinel(fetched.containers[i], k)
            /\ \A k \in AllProbeKinds :
                   <<basics[i].name, k>> \in launched =>
                       fetched.containers[i][k] = locals[i][k].val

\* C20: at no time are two probes of one row inside the write of the row's
\* record, the mutex is held exactly by the probe inside it, and a slot of
\* the result is written by its own row task only.
C20_WritesAreExclusive ==
    \A i \in Rows :
        /\ Cardinality({k \in AllProbeKinds : probes[i][k] = "holding"}) <= 1
        /\ \A k \in AllProbeKinds : probes[i][k] = "holding" <=> mu[i] = k
        /\ slots[i] = IF rowpc[i] = "done" THEN info[i] ELSE ZeroInfo

C20_Witness ==
    /\ Len(basics) = 2
    /\ \A i \in Rows : mu[i] # ""
    /\ ~fetchAll

----------------------------------------------------------------------------
(* Properties of the domain whitelist propagator *)

\* the invocations for a domain that have changed the configuration
Mutating(d) == {n \in DOMAIN dcalls : dcalls[n].domain = d /\ dcalls[n].mutated}

\* the rules of a domain in the configuration
RulesOf(d) == {n \in DOMAIN conf : conf[n] = IpsetRule(d)}

\* C15: of the invocations for one domain at most one changes the
\* configuration, and once an invocation for the domain has succeeded the
\* configuration holds the domain's rule exactly once.
C15_RuleAppendedOnce ==
    \A d \in Domains :
        /\ Cardinality(Mutating(d)) <= 1
        /\ (\E n \in DOMAIN dcalls :
               dcalls[n].domain = d /\ dcalls[n].result = "Success")
              => Cardinality(RulesOf(d)) = 1

----------------------------------------------------------------------------
(* Properties of GetShortName *)

\* C16: the short name of a name that starts with the prefix is what
\* follows its first occurrence (prefix and short name together are the
\* name), and the short name of any other name is the name.
C16_StripsOneLeadingPrefix ==
    short.called =>
        IF \E rest \in Listings(NameChars, MaxLen) : nameArg = prefix \o rest
        THEN prefix \o short.out = nameArg
        ELSE short.out = nameArg

C16_Witness ==
    /\ short.called
    /\ prefix = <<"a", "-">>
    /\ nameArg = <<"a", "-", "a", "-">>
    /\ short.out = <<"a", "-">>

----------------------------------------------------------------------------
(* Properties of FormatExpiration *)

----------------------------------------------------------------------------
(* Properties of the display order and the indexed selection *)

\* what was typed, for the lines that are numbers
Denoted ==
    (<<"0">> :> 0) @@ (<<"1">> :> 1) @@ (<<"2">> :> 2) @@ (<<"3">> :> 3)
        @@ (<<"4">> :> 4) @@ (<<"-", "1">> :> -1) @@ (<<"+", "2">> :> 2)
        @@ (<<" ", "2", " ">> :> 2) @@ (<<"1", "2">> :> 12)

\* the line typed, without its newline
TypedLine == SubSeq(input, 1, Len(input) - 1)

\* C18: when a line was read, a typed index k in 1 .. n selects the k-th
\* record of the displayed order; any other line, numeric or not, gives the
\* validation error with no record; selectContainer never panics.
C18_IndexSelectsDisplayedRecord ==
    /\ selection.kind # "panic"
    /\ (spc = "done" /\ selection.kind # "readFailed") =>
          IF TypedLine \in DOMAIN Denoted
                /\ Denoted[TypedLine] \in 1 .. Len(sorted)
          THEN selection = [kind |-> "selected", rec |-> sorted[Denoted[TypedLine]]]
          ELSE selection = [kind |-> "invalid", rec |-> NoRecord]

C18_Witness ==
    /\ spc = "done"
    /\ Len(sorted) = 3
    /\ sorted # shown
    /\ TypedLine = <<"3">>
    /\ selection.kind = "selected"
    /\ selection.rec = sorted[3]

\* the rank of a name in ascending order
NameRank == (<<"a">> :> 1) @@ (<<"a", "b">> :> 2) @@ (<<"b">> :> 3)

\* record a is not after record b: by state, then attention, then name
NotAfter(a, b) ==
    LET key(r) == <<IF r.Status = "running" THEN 0 ELSE 1,
                    IF r.NeedsAttention THEN 0 ELSE 1, NameRank[r.Name]>>
    IN  \/ key(a)[1] < key(b)[1]
        \/ key(a)[1] = key(b)[1] /\ key(a)[2] < key(b)[2]
        \/ key(a)[1] = key(b)[1] /\ key(a)[2] = key(b)[2] /\ key(a)[3] <= key(b)[3]

\* how often a record occurs in a sequence
Occurrences(rec, recs) == Cardinality({n \in DOMAIN recs : recs[n] = rec})

\* C19: the displayed order holds the records handed in, each as often as
\* it was handed in, running before non-running, then needing attention
\* first, then by name ascending.
C19_DisplayOrder ==
    spc \in {"read", "done"} =>
        /\ \A rec \in ShownRecords : Occurrences(rec, sorted) = Occurrences(rec, shown)
        /\ \A m, n \in DOMAIN sorted : m < n => NotAfter(sorted[m], sorted[n])

C19_Witness ==
    /\ spc = "read"
    /\ Len(shown) = 3
    /\ shown[1].Status = "exited" /\ shown[1].Name = <<"a">>
    /\ shown[2].Status = "running" /\ ~shown[2].NeedsAttention /\ shown[2].Name = <<"a", "b">>
    /\ shown[3].Status = "running" /\ shown[3].NeedsAttention /\ shown[3].Name = <<"b">>
    /\ sorted = <<shown[3], shown[2], shown[1]>>

\* ---------------------------------------------------------------------
\* C21: the dormant flag of the returned records

\* the process check of row i ran and found a process that is no zombie
ProcessFound(i) ==
    /\ <<basics[i].name, "IsDormant">> \in launched
    /\ probes[i]["IsDormant"] = "done"
    /\ ~locals[i]["IsDormant"].err

UnparsedRows ==
    {l \in DOMAIN psRows :
        /\ Len(psRows[l]) >= 4
        /\ HasPrefix(psRows[l][1], prefix)
        /\ psRows[l][4] # GoodStamp}

\* C22: a row with the prefix whose creation timestamp does not parse is in
\* the result with the zero creation time; it is not dropped, and the fetch
\* reports no error for it (an error is returned only before any row is
\* parsed)
C22_UnparsedStampKept ==
    /\ (fetched.returned /\ ~fetched.err) =>
          \A l \in UnparsedRows :
              \E i \in DOMAIN fetched.containers :
                  /\ fetched.containers[i].Name = psRows[l][1]
                  /\ fetched.containers[i].CreatedAt.zero
    /\ fetched.err => basics = <<>>

\* the fetch returned the record of other-bar, whose timestamp is
\* "2 weeks ago", with the zero creation time
C22_Witness ==
    /\ fetched.returned /\ ~fetched.err
    /\ UnparsedRows # {}
    /\ \E i \in DOMAIN fetched.containers :
          /\ fetched.containers[i].Name = OtherBar
          /\ fetched.containers[i].CreatedAt.zero

\* ---------------------------------------------------------------------
\* C23: the probe resolution does not decide the outcome

\* the invocations that restarted the resolver with the rule of their
\* domain in the configuration, and whose resolution failed or gave nothing
ResolvedNothing ==
    {n \in DOMAIN dcalls :
        /\ dcalls[n].restarted
        /\ dcalls[n].resolved \in {"failed", "empty"}}

\* C23: an invocation whose rule is in place and whose resolver was
\* restarted reports success although its probe resolution failed or was
\* empty, and the configuration keeps the rule of its domain.  runAddDomain
\* reports the success before its offer to update the local configuration;
\* the one other end it can take from there is the panic of that update
C23_ResolutionIsBestEffort ==
    \A n \in ResolvedNothing :
        /\ dcalls[n].result = "Success"
              \/ (dcalls[n].cmd /\ dcalls[n].result = "Panic"
                    /\ \E u \in DOMAIN ucalls : ucalls[u].result = "panic")
        /\ dcalls[n].mutated => RulesOf(dcalls[n].domain) # {}

\* both entry points returned success after appending the rule, restarting
\* the resolver and a resolution that failed or was empty
C23_Witness ==
    \E m, n \in ResolvedNothing :
        /\ dcalls[m].cmd /\ ~dcalls[n].cmd
        /\ dcalls[m].mutated /\ dcalls[n].mutated
        /\ dcalls[m].resolved = "failed" /\ dcalls[n].resolved = "empty"
        /\ dcalls[m].result = "Success" /\ dcalls[n].result = "Success"
        /\ RulesOf(dcalls[m].domain) # {} /\ RulesOf(dcalls[n].domain) # {}

\* ---------------------------------------------------------------------
\* C24: the mirror of a domain in the local configuration

\* the allowed-domain list in effect
AllowedDomains == LoadedDomains(cfgFile, viperDomains)

\* the calls of updateConfigWithDomain that returned nil
Mirrored == {n \in DOMAIN ucalls : ucalls[n].result \in {"present", "written"}}

RunningSandboxes ==
    {psRows[l][1] : l \in {k \in DOMAIN psRows :
        HasPrefix(psRows[k][1], prefix) \/ HasPrefix(psRows[k][1], LegacyPrefix)}}

\* the content of a replica location
Replica(loc) == IF loc = HostLocation THEN fs[HostCredPath] ELSE sandbox[loc]

\* C25: RefreshTokens succeeds only if the target holds, by one copy and one
\* ownership fix that both succeeded, readable content that is not expired
\* and whose expiry no replica read from the host or a running sandbox
\* exceeds, every running sandbox having been looked at; it writes nothing
\* when it returns for want of a readable replica or for an expired
\* freshest one; and it returns an error when the copy or the ownership
\* fix fails
C25_SingleTargetSync ==
    /\ outcome = "Success" =>
          /\ writes = <<[target |-> target, cp |-> TRUE, chown |-> TRUE]>>
          /\ sandbox[target].st = "ok"
          /\ ~IsTokenExpired(sandbox[target].expiresAt, now)
          /\ \A i \in DOMAIN reads :
                reads[i].ok => reads[i].expiresAt <= sandbox[target].expiresAt
          /\ \A loc \in RunningSandboxes \ {target} :
                Replica(loc).st = "ok"
                    => Replica(loc).expiresAt <= sandbox[target].expiresAt
                       \/ \E i \in DOMAIN reads :
                             reads[i].location = loc /\ ~reads[i].ok
    /\ outcome \in {"NoValidCredentials", "AllExpired"} => writes = <<>>
    /\ (pc = "done" /\ \A i \in DOMAIN reads : ~reads[i].ok) =>
          outcome \in {"ListFailed", "NoValidCredentials"}
    /\ \A i \in DOMAIN writes :
          ~writes[i].chown => outcome \in {"CopyFailed", "ChownFailed"}

\* ---------------------------------------------------------------------
\* C26: `maestro stop` without a name

\* the sandboxes the detail fetch marked dormant, in the order returned
MarkedDormant ==
    SelectSeq([i \in DOMAIN stopFetched |->
                  [name |-> stopFetched[i].Name, dormant |-> stopFetched[i].IsDormant]],
              LAMBDA c : c.dormant)

\* the lines that confirm, as typed: y or yes in either case, with blanks
\* around them, ended by the newline
ConfirmingInputs ==
    {<<"y", "\n">>, <<"Y", "\n">>, <<"y", "e", "s", "\n">>,
     <<" ", "Y", "E", "S", " ", "\n">>}

\* C26: every `docker stop` run is for a sandbox the detail fetch marked
\* dormant and comes after the answer y or yes; without that answer none is
\* run; after it every dormant sandbox is tried once, in order, whatever
\* failed before it, and the count reported is that of the successful stops
C26_StopsConfirmedDormantOnly ==
    /\ \A i \in DOMAIN stopLog :
          /\ i <= Len(MarkedDormant)
          /\ stopLog[i].name = MarkedDormant[i].name
    /\ stopLog # <<>> => stopInput \in ConfirmingInputs
    /\ (stpc = "returned" /\ stopInput \notin ConfirmingInputs) => stopLog = <<>>
    /\ (stpc = "returned" /\ stopInput \in ConfirmingInputs) =>
          /\ Len(stopLog) = Len(MarkedDormant)
          /\ stopOutcome.result = "Done"
          /\ stopOutcome.reported =
                Cardinality({i \in DOMAIN stopLog : stopLog[i].ok})

\* with a sandbox that is not dormant left alone, the first of two dormant
\* sandboxes failed to stop, the second was stopped, and 1 was reported
C26_Witness ==
    /\ stpc = "returned" /\ stopOutcome = [result |-> "Done", reported |-> 1]
    /\ Len(stopFetched) = 3
    /\ Len(stopLog) = 2
    /\ ~stopLog[1].ok /\ stopLog[2].ok
    /\ stopInput = <<" ", "Y", "E", "S", " ", "\n">>

\* ---------------------------------------------------------------------
\* C27: a pass never lowers a replica's freshness

\* the freshness of a content: its expiry, and less than any expiry when it
\* cannot be read
Freshness(content) ==
    IF content.st = "ok" THEN content.expiresAt ELSE ZeroTime - 1

\* C27: no step taken while a pass is at work lowers the freshness of the
\* host file or of a sandbox's file: what a location holds after the pass
\* wrote to it expires no earlier than what it held just before, also when
\* a sandbox refreshed its credential between the scan and the write
C27_NeverLowersFreshness ==
    [][/\ Freshness(fs'[HostCredPath]) >= Freshness(fs[HostCredPath])
       /\ \A c \in SandboxNames : Freshness(sandbox'[c]) >= Freshness(sandbox[c])]_vars

\* ---------------------------------------------------------------------
\* C28: what the targets of a pass receive

\* the content read from the winning replica during the scan, on which
\* Select and Validate decided
ScannedWinner == Cred(freshest.creds.expiresAt)

\* a step of the propagation puts the scanned content where it writes
WritesScannedWinner ==
    pc \in {"synchost", "sync"} =>
        /\ fs'[HostCredPath] # fs[HostCredPath]
              => fs'[HostCredPath] = ScannedWinner
        /\ \A c \in SandboxNames :
              sandbox'[c] # sandbox[c] => sandbox'[c] = ScannedWinner

\* C28: every write of the propagation, to the host file or into a
\* sandbox, puts there the content that was read from the winning replica
\* during the scan, so all targets of the pass receive the same content
C28_TargetsGetScannedContent == [][WritesScannedWinner]_vars

\* ---------------------------------------------------------------------
\* C29: every location once

\* the number of scans of a location
Scans(loc) == Cardinality({i \in DOMAIN reads : reads[i].location = loc})

\* the replica locations of the pass
Locations == {HostLocation} \cup Range(containers)

\* C29: in one pass every replica location is scanned at most once and
\* written at most once, and the tally of successes is at most the number
\* of locations written, for every configured prefix
C29_EveryLocationAtMostOnce ==
    /\ \A loc \in Locations : Scans(loc) <= 1 /\ Attempts(loc) <= 1
    /\ syncCount <= Cardinality(Written)

\* ---------------------------------------------------------------------
\* C30: convergence and idempotence

\* the host and every listed sandbox hold content of the winner's expiry
Converged ==
    \A loc \in Locations :
        /\ Replica(loc).st = "ok"
        /\ Replica(loc).expiresAt = freshest.creds.expiresAt

\* a step leaves the content of every replica as it is
ReplicasUnchanged ==
    /\ fs'[HostCredPath] = fs[HostCredPath]
    /\ sandbox' = sandbox

\* C30: after a pass in which every target write succeeded, with no replica
\* changed from outside, the host and every running sandbox listed hold
\* content of the same, maximal, expiry, and no step of a second pass run
\* right after it changes the content of a replica
C30_ConvergesAndIdempotent ==
    /\ [](AllSynced => Converged)
    /\ [][passNo = 2 => ReplicasUnchanged]_vars

\* the container syncs on record whose copy succeeded
CopiedSyncs == {i \in DOMAIN chowns : chowns[i].copied}

\* the write to the host counted by the pass (none when the host is the source)
HostSynced ==
    Cardinality({i \in DOMAIN writes : writes[i].target = HostLocation /\ writes[i].ok})

\* C31: a sandbox target is counted in the tally exactly when the copy of the
\* winning content into it succeeded, whether the ownership fix that followed
\* succeeded or not; a target whose copy failed is not counted and no
\* ownership fix is run on it; so the tally is the host write that succeeded
\* plus the container copies that succeeded
C31_CountedIffCopied ==
    /\ \A i \in DOMAIN chowns :
          /\ chowns[i].counted <=> chowns[i].copied
          /\ chowns[i].copied <=> chowns[i].chown # "none"
    /\ pc \in {"sync", "finish", "done"} =>
          syncCount = HostSynced + Cardinality(CopiedSyncs)

\* a pass returned that copied into one sandbox without fixing its ownership
\* and failed to copy into another
C31_Witness ==
    /\ pc = "done"
    /\ \E i, j \in DOMAIN chowns :
          /\ chowns[i].copied /\ chowns[i].chown = "failed" /\ chowns[i].counted
          /\ ~chowns[j].copied /\ chowns[j].chown = "none" /\ ~chowns[j].counted

\* the configuration holds the line
InConf(line) == \E n \in DOMAIN conf : conf[n] = line

\* C32: after any sequence of invocations, also ones whose append or restart
\* failed partway, the configuration holds the ipset rule of a domain if and
\* only if it holds the server rule of that domain
C32_RulesComeInPairs ==
    dpc = "idle" =>
        \A d \in Domains : InConf(IpsetRule(d)) <=> InConf(ServerRule(d))

\* the running resolver has read the ipset rule of the domain: the rule is
\* among the lines written before it started
RuleLoaded(d, lines, r) ==
    /\ r.running
    /\ \E n \in 1 .. (Len(lines) - r.unloaded) : lines[n] = IpsetRule(d)

\* a step in which AddDomainToContainer returns nil leaves the resolver
\* running on a configuration read after the rule of the domain was written
SuccessMeansLoaded ==
    (/\ Len(dcalls') = Len(dcalls) + 1
     /\ ~dcalls'[Len(dcalls')].cmd
     /\ dcalls'[Len(dcalls')].result = "Success")
        => RuleLoaded(dcalls'[Len(dcalls')].domain, conf', resolver')

\* C33: whenever AddDomainToContainer returns success for a domain, the
\* resolver of the sandbox is running and was started after the rule of the
\* domain was written, also when an earlier invocation appended the rule and
\* failed to restart the resolver
C33_SuccessMeansLoaded == [][SuccessMeansLoaded]_vars

\* C34: the expired classification and the rendered status of a credential
\* agree: at one instant FormatExpiration renders the EXPIRED category exactly
\* when IsTokenExpired is true, and GetAuthStatus returns no valid and no
\* expiring-soon status with a negative remaining time, whatever the expiry
\* and the clock, also when the clock advances between the expiry check and
\* the duration computation and for instants less than a unit apart
C34_ExpiredAgreesWithStatus ==
    /\ (verdict.called /\ rendered.format # "" /\ verdict.instant = rendered.at)
          => (rendered.format = "EXPIRED %.1fh ago" <=> verdict.expired)
    /\ authStatus.kind \in {"WARNING", "VALID"} => authStatus.remaining >= 0

\* C35: what the detail fetch returns does not depend on how row goroutines
\* and probes interleave: the records are in the order of the listed rows
\* that have the prefix, and each field a probe fills holds the value that
\* the probe of that row computed for it
C35_ResultIgnoresInterleaving ==
    (fetched.returned /\ ~fetched.err) =>
        LET kept == ParseLines(psRows, prefix) IN
        /\ ReturnedNames = [i \in DOMAIN kept |-> kept[i][1]]
        /\ \A i \in DOMAIN fetched.containers : \A k \in AllProbeKinds :
              <<basics[i].name, k>> \in launched
                  => fetched.containers[i][k] = locals[i][k].val

\* a fetch returned two records whose probes gave different branches and
\* different process checks
C35_Witness ==
    /\ fetched.returned /\ ~fetched.err
    /\ Len(fetched.containers) = 2
    /\ fetched.containers[1].Branch = "unknown"
    /\ fetched.containers[2].Branch = "main"
    /\ fetched.containers[1].IsDormant /\ ~fetched.containers[2].IsDormant

\* the results received for a task number
ReceivedFor(n) == {i \in DOMAIN collected : collected[i].TaskNumber = n}

\* the selected tasks of a task number
SelectedFor(n) == {w \in Workers : tasks[w] = n}

\* the collector returned after every worker had finished and the channel was
\* closed, with one result for each selected task, the successes it reports
\* and the failures adding up to the number of tasks
BatchComplete ==
    bpc = "returned" =>
        /\ closed
        /\ \A w \in Workers : wpc[w] = "done"
        /\ \A n \in TaskNumbers :
              Cardinality(ReceivedFor(n)) = Cardinality(SelectedFor(n))
        /\ batchReport.of = Len(tasks)
        /\ batchReport.created =
              Cardinality({i \in DOMAIN collected : collected[i].Success})
        /\ batchReport.created
              + Cardinality({i \in DOMAIN collected : ~collected[i].Success})
              = Len(tasks)
        /\ Len(createdContainers) = batchReport.created

\* a worker about to send finds room in the channel
SendNeverBlocks ==
    \A w \in Workers : wpc[w] = "send" => (~closed /\ Len(results) < Capacity(Len(tasks)))

\* C36: createContainersInParallel delivers exactly one result for each
\* selected task under every interleaving: no worker blocks on sending its
\* result, the collector ends, and it ends after all workers have finished,
\* with the successes reported and the failures adding up to the number of
\* tasks
C36_OneResultPerTask ==
    /\ [](SendNeverBlocks /\ BatchComplete)
    /\ <>(bpc = "returned")

\* a batch of two tasks returned, one created and one failed, the result of
\* the second task received first
C36_Witness ==
    /\ bpc = "returned"
    /\ Len(tasks) = 2
    /\ batchReport = [created |-> 1, of |-> 2]
    /\ collected[1].TaskNumber = tasks[2]
    /\ tasks[1] # tasks[2]

\* the fields of a form: the textarea, the text inputs, the checkboxes and
\* the buttons
TotalFields(m) == 1 + m.textinputs + Len(m.checkboxes) + Len(m.Actions)

\* C37: for every kind of modal and every sequence of key events handled by
\* Modal.Update the indices of the modal stay valid (SelectedAction among the
\* actions when there are any, focusedField among the fields of a form) and
\* no key faults, the tab key on a modal without actions included
C37_IndicesStayValid ==
    mst # "none" =>
        /\ mst # "panic"
        /\ Len(modal.Actions) > 0 =>
              (0 <= modal.SelectedAction /\ modal.SelectedAction < Len(modal.Actions))
        /\ modal.Type = "ModalForm" =>
              (0 <= modal.focusedField /\ modal.focusedField < TotalFields(modal))

\* a step that handles Esc on a modal with DisableEsc set returns the modal
\* as it was
EscLeavesDisabled ==
    (mst = "open" /\ keyCount' = keyCount + 1 /\ lastKey' = "esc" /\ modal.DisableEsc)
        => (mst' = "open" /\ modal' = modal)

\* C38: a modal created with DisableEsc set is never dismissed by the Esc
\* key: for forms and other modals alike, Modal.Update on Esc returns the
\* same modal with its state unchanged
C38_EscKeepsDisabledModal == [][EscLeavesDisabled]_vars

\* Esc has been handled by a form with DisableEsc set that had moved its
\* focus before, and the form is still open
C38_Witness ==
    /\ mst = "open"
    /\ lastKey = "esc"
    /\ modal.DisableEsc
    /\ modal.Type = "ModalForm"
    /\ modal.focusedField = 1
    /\ keyCount = 2

====
